---- MODULE Spec2Model ----
(***************************************************************************)
(* Streaming document extraction engine of the mainframe-migration-suite:  *)
(* the two streaming extractors (StreamingFileExtractor of the analysis    *)
(* lambda, ChunkStreamingExtractor of the chunk-processor lambda), their   *)
(* stream drivers, and the chunk-result aggregation.                       *)
(*                                                                         *)
(* Text is a sequence of characters.  A character of the model is a token: *)
(* "NL" is the newline, "SP" a blank, "#" a hash sign, "FENCE" a triple    *)
(* backtick, "x" one ordinary character, "W" a run of 60 ordinary          *)
(* characters, and a keyword token ("README", ".py", ...) is the run of    *)
(* characters it spells.  The code never looks inside such a run except to *)
(* take its length (CharLen).                                              *)
(***************************************************************************)
EXTENDS Integers, Sequences, FiniteSets, TLC

VARIABLES impl, text, pos, sliced, extractor, pc, result, sentinel_yielded,
          handler, chunk_results, agg_i, aggregated, job_status, handler_result,
          read_failed,
          splitter, full_text, max_size, current_pos, chunks, split_pc, last_cut,
          instances, proc_pc, proc_chunks, proc_i, llm_result, proc_results,
          converse_calls, aggregate_input, proc_aggregated, rep_handler,
          rep_pc, rep_event, job_table, failed_reports, rep_result, invocation,
          budget_arg, environ_max_tokens, first_environ, first_chunks, val_pc,
          val_event, fix_attempt, validation_errors, fetches, validations,
          fix_calls, job_statuses, val_result, ini_pc, ini_event, ini_log,
          job_records, job_record_status, executions, ini_response, merge_pc,
          merge_results, merge_i, merge_items, merge_k, merged, before_chunk,
          merge_raised, merge_result, cmb_pc, prompt_len, max_combined_chars,
          cmb_results, cmb_i, combined_len, cmb_file_count, cmb_result

vars == <<impl, text, pos, sliced, extractor, pc, result, sentinel_yielded,
          handler, chunk_results, agg_i, aggregated, job_status, handler_result,
          read_failed,
          splitter, full_text, max_size, current_pos, chunks, split_pc, last_cut,
          instances, proc_pc, proc_chunks, proc_i, llm_result, proc_results,
          converse_calls, aggregate_input, proc_aggregated, rep_handler,
          rep_pc, rep_event, job_table, failed_reports, rep_result, invocation,
          budget_arg, environ_max_tokens, first_environ, first_chunks, val_pc,
          val_event, fix_attempt, validation_errors, fetches, validations,
          fix_calls, job_statuses, val_result, ini_pc, ini_event, ini_log,
          job_records, job_record_status, executions, ini_response, merge_pc,
          merge_results, merge_i, merge_items, merge_k, merged, before_chunk,
          merge_raised, merge_result, cmb_pc, prompt_len, max_combined_chars,
          cmb_results, cmb_i, combined_len, cmb_file_count, cmb_result>>

streamVars == <<impl, text, pos, sliced, extractor, pc, result, sentinel_yielded>>

aggVars == <<handler, chunk_results, agg_i, aggregated, job_status, handler_result,
             read_failed>>

splitVars == <<splitter, full_text, max_size, current_pos, chunks, split_pc, last_cut>>

\* the extractors of the chunks that are processed side by side
parVars == <<instances>>

\* process_chunks of the analysis lambda: its chunks, loop index, the result of the call in flight, its chunk_results, the calls the completion service received, and what aggregate_chunk_results was given and returned
procVars == <<proc_pc, proc_chunks, proc_i, llm_result, proc_results, converse_calls, aggregate_input, proc_aggregated>>

\* a handler that reports its progress to the job table: the handler, its place, its event, the store outcomes are chosen at each report; job_table holds the statuses written, failed_reports counts the reports the table refused
repVars == <<rep_handler, rep_pc, rep_event, job_table, failed_reports, rep_result>>

\* a splitter invoked twice: the number of the invocation, the budget argument, the value of MAX_TOKENS_PER_CHUNK in the environment now and at the first invocation, and what the first invocation returned
twiceVars == <<invocation, budget_arg, environ_max_tokens, first_environ, first_chunks>>

\* the validation handler of the cfn-generator: its place, its event, the attempt counter carried in the event, the error of the validation that failed in this round, the fetches of the template, the outcome of each validation round, the calls of the template fix, the statuses reported for the job, and what the handler returned
valVars == <<val_pc, val_event, fix_attempt, validation_errors, fetches, validations, fix_calls, job_statuses, val_result>>

\* the initial handler of the cfn-generator: its place, its event, the outcomes of the steps it has made, the job records put, the status of the job record in the table, the executions started, and its response
iniVars == <<ini_pc, ini_event, ini_log, job_records, job_record_status, executions, ini_response>>

\* the merge loop of the result-aggregator lambda, item by item: its place, the chunk results of its event, the loop index, the items of the stored result in hand and how many of them are merged, the aggregated mapping now and when the iteration began, the iterations that raised, and what the handler returned
mrgVars == <<merge_pc, merge_results, merge_i, merge_items, merge_k, merged, before_chunk, merge_raised, merge_result>>

\* the combine loop of the file-aggregation handler, in lengths: its place, the length of the prompt template, max_combined_chars, the file results of the event, the loop index, the length of combined_text, the number of files added, and what the handler returned
cmbVars == <<cmb_pc, prompt_len, max_combined_chars, cmb_results, cmb_i, combined_len, cmb_file_count, cmb_result>>

\* the variables of the specifications further down
laterVars == <<parVars, procVars, repVars, twiceVars, valVars, iniVars, mrgVars, cmbVars>>

baseVars == <<streamVars, aggVars, splitVars>>

besidesPar == <<procVars, repVars, twiceVars, valVars, iniVars, mrgVars, cmbVars>>

exceptPar == <<baseVars, besidesPar>>

besidesProc == <<parVars, repVars, twiceVars, valVars, iniVars, mrgVars, cmbVars>>

exceptProc == <<baseVars, besidesProc>>

besidesRep == <<parVars, procVars, twiceVars, valVars, iniVars, mrgVars, cmbVars>>

exceptRep == <<baseVars, besidesRep>>

besidesTwice == <<parVars, procVars, repVars, valVars, iniVars, mrgVars, cmbVars>>

exceptTwice == <<baseVars, besidesTwice>>

besidesVal == <<parVars, procVars, repVars, twiceVars, iniVars, mrgVars, cmbVars>>

exceptVal == <<baseVars, besidesVal>>

besidesIni == <<parVars, procVars, repVars, twiceVars, valVars, mrgVars, cmbVars>>

exceptIni == <<baseVars, besidesIni>>

besidesMrg == <<parVars, procVars, repVars, twiceVars, valVars, iniVars, cmbVars>>

exceptMrg == <<baseVars, besidesMrg>>

besidesCmb == <<parVars, procVars, repVars, twiceVars, valVars, iniVars, mrgVars>>

exceptCmb == <<baseVars, besidesCmb>>

\* Python's None
None == "None"

-----------------------------------------------------------------------------
(* Strings *)

\* the whitespace str.strip() removes, among the characters of the model
Whitespace == {"SP", "NL"}

\* len() of one token: the number of characters it stands for
CharLen(t) ==
    CASE t = "W" -> 60
      [] t = "FENCE" -> 3
      [] t \in {"NL", "SP", "#", "x", "_", "a", "b"} -> 1
      [] t = "Error:" -> 6
      [] t = "python" -> 6
      [] t = ".py" -> 3
      [] t = ".json" -> 5
      [] t = ".md" -> 3
      [] t = "README" -> 6
      [] t = "readme" -> 6
      [] t = "LAMBDA" -> 6
      [] t = "FUNCTIONS" -> 9
      [] t = "IAM" -> 3
      [] t = "ROLES" -> 5
      [] t = "S3" -> 2
      [] t = "_chunk" -> 6
      [] t = "B" -> 200
      [] t = "H" -> 2400
      [] t = "FILESEP" -> 18
      [] t = "DOCUMENTATION:" -> 14
      [] t = "P" -> 86
      [] t = "DEFAULT_PROMPT" -> 111
      [] OTHER -> 1

Min(a, b) == IF a <= b THEN a ELSE b

\* len(s): the lengths of the two halves of a long text are added up
RECURSIVE StrLen(_)
StrLen(s) ==
    IF s = <<>> THEN 0
    ELSE IF Len(s) = 1 THEN CharLen(s[1])
    ELSE StrLen(SubSeq(s, 1, Len(s) \div 2)) + StrLen(SubSeq(s, Len(s) \div 2 + 1, Len(s)))

RECURSIVE lstrip(_)
lstrip(s) == IF s # <<>> /\ Head(s) \in Whitespace THEN lstrip(Tail(s)) ELSE s

RECURSIVE rstrip(_)
rstrip(s) ==
    IF s # <<>> /\ s[Len(s)] \in Whitespace THEN rstrip(SubSeq(s, 1, Len(s) - 1)) ELSE s

\* str.strip()
strip(s) == rstrip(lstrip(s))

\* index of the first newline of s, 0 when there is none
RECURSIVE FindNL(_, _)
FindNL(s, i) ==
    IF i > Len(s) THEN 0 ELSE IF s[i] = "NL" THEN i ELSE FindNL(s, i + 1)

\* str.split('\n'): the lines of s, one more than its newlines
RECURSIVE split_lines(_)
split_lines(s) ==
    IF Len(s) <= 4
    THEN LET i == FindNL(s, 1) IN
         IF i = 0 THEN <<s>>
         ELSE <<SubSeq(s, 1, i - 1)>> \o split_lines(SubSeq(s, i + 1, Len(s)))
    ELSE \* the lines of the two halves, the line across the middle put together
         LET m == Len(s) \div 2
             left == split_lines(SubSeq(s, 1, m))
             right == split_lines(SubSeq(s, m + 1, Len(s)))
         IN SubSeq(left, 1, Len(left) - 1)
            \o <<left[Len(left)] \o right[1]>>
            \o Tail(right)

\* '\n'.join(lines)
RECURSIVE join_lines(_)
join_lines(lines) ==
    IF lines = <<>> THEN <<>>
    ELSE IF Len(lines) = 1 THEN lines[1]
    ELSE join_lines(SubSeq(lines, 1, Len(lines) \div 2)) \o <<"NL">>
         \o join_lines(SubSeq(lines, Len(lines) \div 2 + 1, Len(lines)))

\* str.startswith
startswith(s, prefix) ==
    Len(s) >= Len(prefix) /\ SubSeq(s, 1, Len(prefix)) = prefix

\* re.IGNORECASE: the upper-case form of a keyword token
Upper(t) == IF t = "readme" THEN "README" ELSE t

-----------------------------------------------------------------------------------------------------------------------------------------------------
(* Section headers.  Every section pattern is ^##\s* followed by keywords that *)
(* are separated by [_\s]*; re.match anchors at the start of the line only.    *)

\* s without its leading characters of class cls: a starred character class
RECURSIVE SkipClass(_, _)
SkipClass(s, cls) == IF s # <<>> /\ Head(s) \in cls THEN SkipClass(Tail(s), cls) ELSE s

\* the keywords kws, separated by [_\s]*, at the start of s
RECURSIVE match_keywords(_, _)
match_keywords(kws, s) ==
    IF kws = <<>> THEN TRUE
    ELSE /\ s # <<>>
         /\ Upper(Head(s)) = Head(kws)
         /\ \/ Len(kws) = 1
            \/ match_keywords(Tail(kws), SkipClass(Tail(s), {"_", "SP"}))

\* section_patterns, in dictionary order, without the ^##\s* they all start with; each
\* entry lists the alternatives of its pattern
section_patterns ==
    << [name |-> "LAMBDA_FUNCTIONS", alts |-> {<<"LAMBDA", "FUNCTIONS">>}],
       [name |-> "IAM_ROLES", alts |-> {<<"IAM", "ROLES">>}],
       [name |-> "DYNAMODB", alts |-> {<<"DYNAMO", "DB">>}],
       [name |-> "S3", alts |-> {<<"S3">>}],
       [name |-> "SQS_SNS_EVENTBRIDGE",
        alts |-> {<<"SQS", "SNS", "EVENTBRIDGE">>, <<"MESSAGING">>}],
       [name |-> "STEP_FUNCTIONS", alts |-> {<<"STEP", "FUNCTIONS">>}],
       [name |-> "AWS_GLUE", alts |-> {<<"AWS", "GLUE">>, <<"GLUE">>}],
       [name |-> "API_GATEWAY", alts |-> {<<"API", "GATEWAY">>}],
       [name |-> "ECS_FARGATE", alts |-> {<<"ECS">>, <<"FARGATE">>, <<"CONTAINERS">>}],
       [name |-> "RDS", alts |-> {<<"RDS">>}],
       [name |-> "CLOUDFORMATION", alts |-> {<<"CLOUDFORMATION">>, <<"CFN">>}],
       [name |-> "OTHER_SERVICES", alts |-> {<<"OTHER", "SERVICES">>}],
       [name |-> "README", alts |-> {<<"README">>}],
       [name |-> "REASONING", alts |-> {<<"REASONING">>}],
       [name |-> "ARCHITECTURE", alts |-> {<<"ARCHITECTURE">>}] >>

SectionIds == {section_patterns[i].name : i \in 1..Len(section_patterns)}

documentation_sections == {"README", "REASONING", "ARCHITECTURE"}

\* the first pattern, in order, that matches what follows ^##\s*
RECURSIVE detect_section_from(_, _)
detect_section_from(i, rest) ==
    IF i > Len(section_patterns) THEN None
    ELSE IF \E alt \in section_patterns[i].alts : match_keywords(alt, rest)
         THEN section_patterns[i].name
         ELSE detect_section_from(i + 1, rest)

detect_section(line) ==
    IF ~startswith(line, <<"#", "#">>) THEN None
    ELSE detect_section_from(1, SkipClass(SubSeq(line, 3, Len(line)), {"SP"}))

-----------------------------------------------------------------------------
(* File headers *)

\* the extension tokens: the only tokens that hold a '.'
Extensions ==
    {".py", ".cs", ".java", ".go", ".js", ".json", ".yaml", ".yml", ".md", ".sh", ".sql",
     ".tf", ".properties", ".csproj", ".xml"}

\* file_patterns of StreamingFileExtractor, in dictionary order: the extension tokens on
\* which the pattern's literal suffix matches
file_patterns ==
    << [type |-> "python", exts |-> {".py"}],
       [type |-> "json", exts |-> {".json"}],
       [type |-> "yaml", exts |-> {".yaml", ".yml"}],
       [type |-> "markdown", exts |-> {".md"}],
       [type |-> "shell", exts |-> {".sh"}],
       [type |-> "sql", exts |-> {".sql"}],
       [type |-> "dockerfile", exts |-> {}],
       [type |-> "terraform", exts |-> {".tf"}],
       [type |-> "properties", exts |-> {".properties"}] >>

\* file_patterns of ChunkStreamingExtractor: \.cs also matches the start of ".csproj",
\* and \.js the start of ".json"
chunk_file_patterns ==
    << [type |-> "python", exts |-> {".py"}],
       [type |-> "csharp", exts |-> {".cs", ".csproj"}],
       [type |-> "java", exts |-> {".java"}],
       [type |-> "go", exts |-> {".go"}],
       [type |-> "javascript", exts |-> {".js", ".json"}],
       [type |-> "json", exts |-> {".json"}],
       [type |-> "yaml", exts |-> {".yaml", ".yml"}],
       [type |-> "markdown", exts |-> {".md"}],
       [type |-> "shell", exts |-> {".sh"}],
       [type |-> "sql", exts |-> {".sql"}],
       [type |-> "dockerfile", exts |-> {}],
       [type |-> "terraform", exts |-> {".tf"}],
       [type |-> "properties", exts |-> {".properties"}],
       [type |-> "csproj", exts |-> {".csproj"}],
       [type |-> "xml", exts |-> {".xml"}] >>

\* the text the pattern's literal suffix consumes of extension token t
MatchedSuffix(type, t) ==
    IF type = "javascript" THEN ".js" ELSE IF type = "csharp" THEN ".cs" ELSE t

\* (.+\.ext) or (Dockerfile.*) on what follows ^###: group(1).strip(), or None.  \s*
\* gives back what .+ needs; the greedy .+ ends at the last extension the pattern
\* matches, and needs one character before it.
match_file_pattern(pat, rest) ==
    IF pat.type = "dockerfile"
    THEN IF lstrip(rest) # <<>> /\ Head(lstrip(rest)) = "Dockerfile"
         THEN strip(rest) ELSE None
    ELSE LET J == {j \in 2..Len(rest) : rest[j] \in pat.exts} IN
         IF J = {} THEN None
         ELSE LET j == CHOOSE k \in J : \A l \in J : l <= k IN
              strip(SubSeq(rest, 1, j - 1) \o <<MatchedSuffix(pat.type, rest[j])>>)

\* the first pattern, in order, that matches
RECURSIVE detect_file_from(_, _, _)
detect_file_from(pats, i, rest) ==
    IF i > Len(pats) THEN None
    ELSE LET m == match_file_pattern(pats[i], rest) IN
         IF m # None THEN m ELSE detect_file_from(pats, i + 1, rest)

\* StreamingFileExtractor.detect_file: every pattern starts with ^###
detect_file(line) ==
    IF ~startswith(line, <<"#", "#", "#">>) THEN None
    ELSE detect_file_from(file_patterns, 1, SubSeq(line, 4, Len(line)))

\* ChunkStreamingExtractor.detect_file
cse_detect_file(line) ==
    IF ~startswith(line, <<"#", "#", "#">>) THEN None
    ELSE detect_file_from(chunk_file_patterns, 1, SubSeq(line, 4, Len(line)))

\* str.endswith on a file name
endswith(filename, ext) == filename # <<>> /\ filename[Len(filename)] = ext

\* StreamingFileExtractor.get_content_type
get_content_type(filename) ==
    CASE endswith(filename, ".py") -> "text/x-python"
      [] endswith(filename, ".json") -> "application/json"
      [] endswith(filename, ".md") -> "text/markdown"
      [] endswith(filename, ".yaml") \/ endswith(filename, ".yml") -> "application/x-yaml"
      [] endswith(filename, ".sh") -> "application/x-sh"
      [] endswith(filename, ".sql") -> "application/sql"
      [] endswith(filename, ".tf") -> "text/x-terraform"
      [] OTHER -> "text/plain"

\* ChunkStreamingExtractor.get_content_type
cse_get_content_type(filename) ==
    CASE endswith(filename, ".py") -> "text/x-python"
      [] endswith(filename, ".cs") -> "text/x-csharp"
      [] endswith(filename, ".java") -> "text/x-java"
      [] endswith(filename, ".go") -> "text/x-go"
      [] endswith(filename, ".js") -> "text/javascript"
      [] endswith(filename, ".json") -> "application/json"
      [] endswith(filename, ".md") -> "text/markdown"
      [] endswith(filename, ".yaml") \/ endswith(filename, ".yml") -> "application/x-yaml"
      [] endswith(filename, ".sh") -> "application/x-sh"
      [] endswith(filename, ".sql") -> "application/sql"
      [] endswith(filename, ".tf") -> "text/x-terraform"
      [] endswith(filename, ".csproj") \/ endswith(filename, ".xml") -> "application/xml"
      [] OTHER -> "text/plain"

\* section.lower().replace('_', '-')
LowerHyphen(section) ==
    CASE section = "LAMBDA_FUNCTIONS" -> "lambda-functions"
      [] section = "IAM_ROLES" -> "iam-roles"
      [] section = "DYNAMODB" -> "dynamodb"
      [] section = "S3" -> "s3"
      [] section = "SQS_SNS_EVENTBRIDGE" -> "sqs-sns-eventbridge"
      [] section = "STEP_FUNCTIONS" -> "step-functions"
      [] section = "AWS_GLUE" -> "aws-glue"
      [] section = "API_GATEWAY" -> "api-gateway"
      [] section = "ECS_FARGATE" -> "ecs-fargate"
      [] section = "RDS" -> "rds"
      [] section = "CLOUDFORMATION" -> "cloudformation"
      [] section = "OTHER_SERVICES" -> "other-services"
      [] section = "README" -> "readme"
      [] section = "REASONING" -> "reasoning"
      [] section = "ARCHITECTURE" -> "architecture"

section_folder_lower(section) == LowerHyphen(section)

\* the folder of a section's files
section_folder(section) ==
    IF section \in documentation_sections THEN "documentation" ELSE LowerHyphen(section)

-----------------------------------------------------------------------------
(* clean_file_content, the same in both extractors *)

is_fence_line_never(line) == FALSE

\* if line.strip().startswith('```'): continue
is_fence_line(line) == strip(line) # <<>> /\ Head(strip(line)) = "FENCE"

\* the loop over the lines: fence lines and leading blank lines are skipped
clean_lines(lines, cleaned_lines) ==
    LET kept == SelectSeq(lines, LAMBDA line : ~is_fence_line(line))
        filled == {i \in 1..Len(kept) : strip(kept[i]) # <<>>}
    IN IF cleaned_lines # <<>> THEN cleaned_lines \o kept
       ELSE IF filled = {} THEN <<>>
       ELSE SubSeq(kept, CHOOSE i \in filled : \A j \in filled : i <= j, Len(kept))

pop_trailing_empty_never(cleaned_lines) == cleaned_lines

\* while cleaned_lines and not cleaned_lines[-1].strip(): cleaned_lines.pop()
pop_trailing_empty(cleaned_lines) ==
    LET filled == {i \in 1..Len(cleaned_lines) : strip(cleaned_lines[i]) # <<>>} IN
    IF filled = {} THEN <<>>
    ELSE SubSeq(cleaned_lines, 1, CHOOSE i \in filled : \A j \in filled : j <= i)

clean_file_content(content) ==
    join_lines(pop_trailing_empty(clean_lines(split_lines(content), <<>>)))

-----------------------------------------------------------------------------
(* StreamingFileExtractor (analysis lambda) *)

\* thresholds of is_file_complete and save_current_file
FenceMinLines == 10
HeaderMinLines == 5
MaxBufferedLines == 1000
MinFileSize == 50

\* __init__: the streaming state of a fresh extractor; s3 is the sequence of objects
\* put to the sink, fed the text appended to the line buffer so far; s3_client is "up"
\* while put_object succeeds and "down" while it raises
NewExtractor(output_prefix, chunk_index) ==
    [output_prefix |-> output_prefix, chunk_index |-> chunk_index,
     buffer |-> <<>>, current_section |-> None, current_file |-> None,
     current_content |-> <<>>, files_created |-> <<>>, s3 |-> <<>>, fed |-> <<>>,
     s3_client |-> "up"]

is_file_complete_doc_on_blank(p, line) ==
    IF p.current_content = <<>> THEN FALSE
    ELSE IF p.current_section \in documentation_sections
         THEN line = <<>>
         ELSE \/ line = <<"FENCE">> /\ Len(p.current_content) > FenceMinLines
              \/ /\ (detect_file(line) # None \/ detect_section(line) # None)
                 /\ Len(p.current_content) > HeaderMinLines
              \/ Len(p.current_content) > MaxBufferedLines

is_file_complete(p, line) ==
    IF p.current_content = <<>> THEN FALSE
    ELSE IF p.current_section \in documentation_sections
         THEN detect_section(line) # None /\ detect_section(line) # p.current_section
         ELSE \/ line = <<"FENCE">> /\ Len(p.current_content) > FenceMinLines
              \/ /\ (detect_file(line) # None \/ detect_section(line) # None)
                 /\ Len(p.current_content) > HeaderMinLines
              \/ Len(p.current_content) > MaxBufferedLines

save_current_file_recording_failed(p) ==
    IF p.current_file = None \/ p.current_content = <<>> THEN p
    ELSE LET content == clean_file_content(join_lines(p.current_content)) IN
         IF StrLen(strip(content)) < MinFileSize THEN p
         ELSE LET file_path == <<p.output_prefix, section_folder(p.current_section),
                                 p.current_file>>
              IN [p EXCEPT
                    !.s3 = IF p.s3_client = "down" THEN @
                           ELSE Append(@, [Key |-> file_path, Body |-> content,
                                           ContentType |->
                                               get_content_type(p.current_file)]),
                    !.files_created =
                        Append(@, [filename |-> p.current_file,
                                   section |-> p.current_section,
                                   size |-> StrLen(content),
                                   s3_path |-> file_path,
                                   content_type |-> get_content_type(p.current_file)]),
                    !.current_file = None,
                    !.current_content = <<>>]

\* the flush; when put_object raises, the except clause prints the failure and the
\* reset below it is still made
save_current_file(p) ==
    IF p.current_file = None \/ p.current_content = <<>> THEN p
    ELSE LET content == clean_file_content(join_lines(p.current_content)) IN
         IF StrLen(strip(content)) < MinFileSize THEN p
         ELSE LET file_path == <<p.output_prefix, section_folder(p.current_section),
                                 p.current_file>>
              IN IF p.s3_client = "down"
                 THEN [p EXCEPT !.current_file = None, !.current_content = <<>>]
                 ELSE
                 [p EXCEPT
                    !.s3 = Append(@, [Key |-> file_path, Body |-> content,
                                      ContentType |-> get_content_type(p.current_file)]),
                    !.files_created =
                        Append(@, [filename |-> p.current_file,
                                   section |-> p.current_section,
                                   size |-> StrLen(content),
                                   s3_path |-> file_path,
                                   content_type |-> get_content_type(p.current_file)]),
                    !.current_file = None,
                    !.current_content = <<>>]

flush_if_open_drops_file(p) == [p EXCEPT !.current_file = None]

flush_if_open_never(p) == p

\* if self.current_file and self.current_content: self.save_current_file()
flush_if_open(p) ==
    IF p.current_file # None /\ p.current_content # <<>> THEN save_current_file(p) ELSE p

doc_filename_none(section) == None

\* the default file name of a documentation section
doc_filename(section) ==
    CASE section = "README" -> <<"README", ".md">>
      [] section = "REASONING" -> <<"reasoning", ".md">>
      [] section = "ARCHITECTURE" -> <<"architecture", ".md">>

process_line_switching_first(p, line) ==
    LET line_stripped == strip(line)
        new_section == detect_section(line_stripped)
        new_file == detect_file(line_stripped)
        saved == flush_if_open([p EXCEPT !.current_section =
                                            IF new_section # None THEN new_section ELSE @])
    IN IF new_section # None
       THEN [saved EXCEPT
               !.current_section = new_section,
               !.current_file = IF new_section \in documentation_sections
                                THEN doc_filename(new_section) ELSE None,
               !.current_content = <<>>]
       ELSE IF new_file # None /\ p.current_section # None
       THEN [saved EXCEPT !.current_file = new_file, !.current_content = <<>>]
       ELSE IF p.current_section # None /\ p.current_file # None
       THEN LET q == [p EXCEPT !.current_content = Append(@, line)] IN
            IF is_file_complete(q, line_stripped) THEN save_current_file(q) ELSE q
       ELSE p

process_line_keeping_file_headers(p, line) ==
    LET line_stripped == strip(line)
        new_section == detect_section(line_stripped)
        saved == flush_if_open(p)
    IN IF new_section # None
       THEN [saved EXCEPT
               !.current_section = new_section,
               !.current_file = IF new_section \in documentation_sections
                                THEN doc_filename(new_section) ELSE None,
               !.current_content = <<>>]
       ELSE IF p.current_section # None /\ p.current_file # None
       THEN LET q == [p EXCEPT !.current_content = Append(@, line)] IN
            IF is_file_complete(q, line_stripped) THEN save_current_file(q) ELSE q
       ELSE p

process_line_opening_without_section(p, line) ==
    LET line_stripped == strip(line)
        new_section == detect_section(line_stripped)
        new_file == detect_file(line_stripped)
        saved == flush_if_open(p)
    IN IF new_section # None
       THEN [saved EXCEPT
               !.current_section = new_section,
               !.current_file = IF new_section \in documentation_sections
                                THEN doc_filename(new_section) ELSE None,
               !.current_content = <<>>]
       ELSE IF new_file # None
       THEN [saved EXCEPT !.current_file = new_file, !.current_content = <<>>]
       ELSE IF p.current_section # None /\ p.current_file # None
       THEN LET q == [p EXCEPT !.current_content = Append(@, line)] IN
            IF is_file_complete(q, line_stripped) THEN save_current_file(q) ELSE q
       ELSE p

process_line(p, line) ==
    LET line_stripped == strip(line)
        new_section == detect_section(line_stripped)
        new_file == detect_file(line_stripped)
        saved == flush_if_open(p)
    IN IF new_section # None
       THEN [saved EXCEPT
               !.current_section = new_section,
               !.current_file = IF new_section \in documentation_sections
                                THEN doc_filename(new_section) ELSE None,
               !.current_content = <<>>]
       ELSE IF new_file # None /\ p.current_section # None
       THEN [saved EXCEPT !.current_file = new_file, !.current_content = <<>>]
       ELSE IF p.current_section # None /\ p.current_file # None
       THEN LET q == [p EXCEPT !.current_content = Append(@, line)] IN
            IF is_file_complete(q, line_stripped) THEN save_current_file(q) ELSE q
       ELSE p

\* one turn of the loop: line, self.buffer = self.buffer.split('\n', 1), then
\* process_line(line)
buffered_line(p) ==
    LET i == FindNL(p.buffer, 1) IN
    process_line([p EXCEPT !.buffer = SubSeq(@, i + 1, Len(@))], SubSeq(p.buffer, 1, i - 1))

\* the turns of the loop down to a buffer of at most `rest` characters: a turn, then the
\* turns of the first half of what is left of the buffer, then those of the second half
RECURSIVE buffered_lines_until(_, _)
buffered_lines_until(p, rest) ==
    IF Len(p.buffer) <= rest \/ FindNL(p.buffer, 1) = 0 THEN p
    ELSE LET q == buffered_line(p)
             half == buffered_lines_until(q, rest + (Len(q.buffer) - rest) \div 2)
         IN IF Len(half.buffer) <= rest THEN half ELSE buffered_lines_until(half, rest)

\* while '\n' in self.buffer: the turns of the loop, until no newline is left
process_buffered_lines(p) == buffered_lines_until(p, 0)

process_streaming_chunk_unbuffered(p, chunk) ==
    process_buffered_lines([p EXCEPT !.buffer = chunk, !.fed = @ \o chunk])

\* self.buffer += chunk, then the complete lines
process_streaming_chunk(p, chunk) ==
    process_buffered_lines([p EXCEPT !.buffer = @ \o chunk, !.fed = @ \o chunk])

\* the open file first, then the rest of the buffer as a line
finalize_processing(p) ==
    LET saved == flush_if_open(p)
    IN IF strip(saved.buffer) # <<>>
       THEN flush_if_open(process_line(saved, saved.buffer))
       ELSE saved

-----------------------------------------------------------------------------
(* ChunkStreamingExtractor (chunk-processor lambda) *)

CseDocMinLines == 15
CseDocBreakLines == 30
CseFenceMinLines == 10
CseHeaderMinLines == 5
CseMaxBufferedLines == 300
CseMinFileSize == 30

cse_is_file_complete(p, line) ==
    IF p.current_content = <<>> THEN FALSE
    ELSE \/ /\ p.current_section \in documentation_sections
            /\ \/ detect_section(line) # None
               \/ /\ Len(p.current_content) > CseDocMinLines
                  /\ strip(line) = <<>>
                  /\ Len(p.current_content) > CseDocBreakLines
         \/ line = <<"FENCE">> /\ Len(p.current_content) > CseFenceMinLines
         \/ /\ (cse_detect_file(line) # None \/ detect_section(line) # None)
            /\ Len(p.current_content) > CseHeaderMinLines
         \/ Len(p.current_content) > CseMaxBufferedLines

\* the index of the last token of the file name that holds a '.', 0 when there is none
LastDot(filename) ==
    LET D == {j \in 1..Len(filename) : filename[j] \in Extensions} IN
    IF D = {} THEN 0 ELSE CHOOSE k \in D : \A l \in D : l <= k

chunk_filename_plain(filename, chunk_index) == filename

\* f"{base_name}_chunk{chunk_index}.{extension}" of current_file.rsplit('.', 1), or
\* f"{current_file}_chunk{chunk_index}" when the name holds no '.'
chunk_filename(filename, chunk_index) ==
    LET j == LastDot(filename) IN
    IF j = 0 THEN filename \o <<"_chunk", ToString(chunk_index)>>
    ELSE SubSeq(filename, 1, j - 1) \o <<"_chunk", ToString(chunk_index)>>
         \o SubSeq(filename, j, Len(filename))

\* the flush, under the file name with the chunk identifier; the reset is made also
\* when put_object raises
cse_save_current_file(p) ==
    IF p.current_file = None \/ p.current_content = <<>> THEN p
    ELSE LET content == clean_file_content(join_lines(p.current_content)) IN
         IF StrLen(strip(content)) < CseMinFileSize THEN p
         ELSE LET name == chunk_filename(p.current_file, p.chunk_index)
                  file_path == <<p.output_prefix, section_folder(p.current_section), name>>
              IN IF p.s3_client = "down"
                 THEN [p EXCEPT !.current_file = None, !.current_content = <<>>]
                 ELSE
                 [p EXCEPT
                    !.s3 = Append(@, [Key |-> file_path, Body |-> content,
                                      ContentType |-> cse_get_content_type(p.current_file)]),
                    !.files_created =
                        Append(@, [filename |-> name,
                                   original_filename |-> p.current_file,
                                   section |-> p.current_section,
                                   chunk_index |-> p.chunk_index,
                                   size |-> StrLen(content),
                                   s3_path |-> file_path,
                                   content_type |-> cse_get_content_type(p.current_file)]),
                    !.current_file = None,
                    !.current_content = <<>>]

\* the default file name of a documentation section, with the chunk identifier
cse_doc_filename(section, chunk_index) ==
    CASE section = "README" -> <<"README", "_chunk", ToString(chunk_index), ".md">>
      [] section = "REASONING" -> <<"analysis", "_chunk", ToString(chunk_index), ".md">>
      [] section = "ARCHITECTURE" ->
            <<"architecture", "_chunk", ToString(chunk_index), ".md">>

cse_process_line(p, line) ==
    LET line_stripped == strip(line)
        new_section == detect_section(line_stripped)
        new_file == cse_detect_file(line_stripped)
        saved == IF p.current_file # None /\ p.current_content # <<>>
                 THEN cse_save_current_file(p) ELSE p
    IN IF new_section # None
       THEN [saved EXCEPT
               !.current_section = new_section,
               !.current_file = IF new_section \in documentation_sections
                                THEN cse_doc_filename(new_section, p.chunk_index)
                                ELSE None,
               !.current_content = <<>>]
       ELSE IF new_file # None /\ p.current_section # None
       THEN [saved EXCEPT !.current_file = new_file, !.current_content = <<>>]
       ELSE IF p.current_section # None
       THEN LET opened ==
                    IF p.current_section \in documentation_sections
                       /\ p.current_file = None
                    THEN [p EXCEPT !.current_file =
                                       cse_doc_filename(p.current_section, p.chunk_index)]
                    ELSE p
            IN IF opened.current_file # None
               THEN LET q == [opened EXCEPT !.current_content = Append(@, line)] IN
                    IF cse_is_file_complete(q, line_stripped)
                    THEN cse_save_current_file(q) ELSE q
               ELSE opened
       ELSE p

\* one turn of the loop: line, buffer = buffer.split('\n', 1), then process_line(line)
cse_buffered_line(p) ==
    LET i == FindNL(p.buffer, 1) IN
    cse_process_line([p EXCEPT !.buffer = SubSeq(@, i + 1, Len(@))],
                     SubSeq(p.buffer, 1, i - 1))

\* the turns of the loop down to a buffer of at most `rest` characters, in two halves
RECURSIVE cse_buffered_lines_until(_, _)
cse_buffered_lines_until(p, rest) ==
    IF Len(p.buffer) <= rest \/ FindNL(p.buffer, 1) = 0 THEN p
    ELSE LET q == cse_buffered_line(p)
             half == cse_buffered_lines_until(q, rest + (Len(q.buffer) - rest) \div 2)
         IN IF Len(half.buffer) <= rest THEN half ELSE cse_buffered_lines_until(half, rest)

\* while '\n' in buffer: the turns of the loop, until no newline is left
cse_process_buffered_lines(p) == cse_buffered_lines_until(p, 0)

\* the body of the loop of process_streaming_response over the stream's fragments
cse_feed(p, chunk) ==
    cse_process_buffered_lines([p EXCEPT !.buffer = @ \o chunk, !.fed = @ \o chunk])

\* process_streaming_response after the stream has ended: the remaining buffer, then
\* the remaining file
cse_finish(p) ==
    LET q == IF strip(p.buffer) # <<>>
             THEN LET r == cse_process_line(p, p.buffer) IN
                  IF r.current_file # None /\ r.current_content # <<>>
                  THEN cse_save_current_file(r) ELSE r
             ELSE p
    IN IF q.current_file # None /\ q.current_content # <<>>
       THEN cse_save_current_file(q) ELSE q

-----------------------------------------------------------------------------
(* The texts a model streams *)

\* bounds of the model
MaxLines == 3
MaxFrag == 3
MaxFileLines == 11
MaxDocLines == 11

SecArtifact == <<"#", "#", "SP", "S3">>
SecDoc == <<"#", "#", "README">>
FileHdr == <<"#", "#", "#", "a", ".py">>
Fence == <<"FENCE">>
FenceOpen == <<"FENCE", "python">>
Long == <<"W">>
Short == <<"x">>
Indented == <<"SP", "W">>
Blank == <<>>
ErrLine == <<"Error:", "x">>

LineKinds == {SecArtifact, SecDoc, FileHdr, Fence, Long, Short, Blank, ErrLine}
ContentKinds == {Long, Short, Blank, Indented, FenceOpen}

\* every text of at most MaxLines lines; a last line that is blank ends the text with a
\* newline
GeneralTexts ==
    {join_lines(ls) : ls \in UNION {[1..n -> LineKinds] : n \in 0..MaxLines}}

\* n lines: a first line, then n - 1 times the same line
Block(first, other, n) == [i \in 1..n |-> IF i = 1 THEN first ELSE other]

\* a section header, a file header, n lines and a closing fence
FileTexts ==
    {join_lines(<<SecArtifact, FileHdr>> \o Block(f, o, n) \o <<Fence>> \o tail) :
        <<f, o, n, tail>> \in ContentKinds \X ContentKinds \X (0..MaxFileLines)
                              \X {<<>>, <<Blank>>}}

\* a documentation header, n lines and the header of the next section
DocTexts ==
    {join_lines(<<SecDoc>> \o Block(f, o, n) \o <<SecArtifact, Blank>>) :
        <<f, o, n>> \in (ContentKinds \cup {Fence}) \X (ContentKinds \cup {Fence})
                        \X (0..MaxDocLines)}

\* a documentation section of more than CseDocBreakLines lines, with and without a
\* blank line after them
LongDocTexts ==
    {join_lines(<<SecDoc>> \o Block(Long, Long, CseDocBreakLines)
                \o <<mid, Long, SecArtifact, Blank>>) : mid \in {Blank, Long}}

\* a file in a section whose identifier has an underscore
SecUnderscore == <<"#", "#", "SP", "IAM", "SP", "ROLES">>

UnderscoreTexts ==
    {join_lines(<<SecUnderscore, FileHdr, Long, last>>) : last \in {Short, Blank}}

Texts == GeneralTexts \cup FileTexts \cup DocTexts \cup LongDocTexts \cup UnderscoreTexts

\* n times the line of the one character c (no character when c is "NL": a blank line)
RunOf(c, n) ==
    IF c = "NL" THEN [i \in 1..n |-> "NL"]
    ELSE [i \in 1..(2 * n) |-> IF i % 2 = 1 THEN c ELSE "NL"]

\* a section header, also a file header when the section is an artifact section, and two
\* lines more than the chunk processor's limit, all of them the same
OverlongTexts ==
    {head \o RunOf(c, CseMaxBufferedLines + 2) :
        head \in {SecArtifact \o <<"NL">> \o FileHdr \o <<"NL">>, SecDoc \o <<"NL">>},
        c \in {"NL", "x", "W"}}

Impls == {"analysis", "chunk"}

\* the fragment sizes the stream delivers when `left` characters are left: up to
\* MaxFrag characters, or all that is left
FragSizes(left) == {k \in 1..left : k <= MaxFrag \/ k = left}

NoResult == [status |-> "none"]

\* the extractor a driver creates for a job (for a chunk: chunk 1)
FreshExtractor(i) ==
    IF i = "analysis" THEN NewExtractor("out/aws_artifacts", 0)
    ELSE NewExtractor("out/aws-artifacts", 1)

AggIdle ==
    /\ handler = "none"
    /\ chunk_results = <<>>
    /\ agg_i = 0
    /\ aggregated = <<>>
    /\ job_status = "none"
    /\ handler_result = NoResult
    /\ read_failed = {}

NoCut == [start |-> -1, target |-> -1, end |-> -1]

SplitIdle ==
    /\ splitter = "none"
    /\ full_text = <<>>
    /\ max_size = 0
    /\ current_pos = 0
    /\ chunks = <<>>
    /\ split_pc = "idle"
    /\ last_cut = NoCut

ParIdle ==
    /\ instances = <<>>

ProcIdle ==
    /\ proc_pc = "idle"
    /\ proc_chunks = 0
    /\ proc_i = 0
    /\ llm_result = "None"
    /\ proc_results = <<>>
    /\ converse_calls = <<>>
    /\ aggregate_input = <<>>
    /\ proc_aggregated = <<>>

RepIdle ==
    /\ rep_handler = "none"
    /\ rep_pc = "idle"
    /\ rep_event = <<>>
    /\ job_table = <<>>
    /\ failed_reports = 0
    /\ rep_result = [status |-> "none"]

TwiceIdle ==
    /\ invocation = 0
    /\ budget_arg = 0
    /\ environ_max_tokens = 0
    /\ first_environ = 0
    /\ first_chunks = <<>>

ValIdle ==
    /\ val_pc = "idle"
    /\ val_event = <<>>
    /\ fix_attempt = 0
    /\ validation_errors = <<>>
    /\ fetches = 0
    /\ validations = <<>>
    /\ fix_calls = 0
    /\ job_statuses = <<>>
    /\ val_result = [validation_status |-> "none"]

IniIdle ==
    /\ ini_pc = "idle"
    /\ ini_event = <<>>
    /\ ini_log = <<>>
    /\ job_records = 0
    /\ job_record_status = "none"
    /\ executions = 0
    /\ ini_response = [statusCode |-> 0]

MrgIdle ==
    /\ merge_pc = "idle"
    /\ merge_results = <<>>
    /\ merge_i = 0
    /\ merge_items = <<>>
    /\ merge_k = 0
    /\ merged = <<>>
    /\ before_chunk = <<>>
    /\ merge_raised = {}
    /\ merge_result = [status |-> "none"]

CmbIdle ==
    /\ cmb_pc = "idle"
    /\ prompt_len = 0
    /\ max_combined_chars = 0
    /\ cmb_results = <<>>
    /\ cmb_i = 0
    /\ combined_len = 0
    /\ cmb_file_count = 0
    /\ cmb_result = [status |-> "none"]

LaterIdle ==
    /\ ParIdle
    /\ ProcIdle
    /\ RepIdle
    /\ TwiceIdle
    /\ ValIdle
    /\ IniIdle
    /\ MrgIdle
    /\ CmbIdle

BaseIdle ==
    /\ impl = "none"
    /\ text = <<>>
    /\ pos = 0
    /\ sliced = FALSE
    /\ extractor = FreshExtractor("analysis")
    /\ pc = "idle"
    /\ result = NoResult
    /\ sentinel_yielded = FALSE
    /\ AggIdle
    /\ SplitIdle

IdleExceptPar ==
    /\ BaseIdle
    /\ ProcIdle
    /\ RepIdle
    /\ TwiceIdle
    /\ ValIdle
    /\ IniIdle
    /\ MrgIdle
    /\ CmbIdle

IdleExceptProc ==
    /\ BaseIdle
    /\ ParIdle
    /\ RepIdle
    /\ TwiceIdle
    /\ ValIdle
    /\ IniIdle
    /\ MrgIdle
    /\ CmbIdle

IdleExceptRep ==
    /\ BaseIdle
    /\ ParIdle
    /\ ProcIdle
    /\ TwiceIdle
    /\ ValIdle
    /\ IniIdle
    /\ MrgIdle
    /\ CmbIdle

IdleExceptTwice ==
    /\ BaseIdle
    /\ ParIdle
    /\ ProcIdle
    /\ RepIdle
    /\ ValIdle
    /\ IniIdle
    /\ MrgIdle
    /\ CmbIdle

IdleExceptVal ==
    /\ BaseIdle
    /\ ParIdle
    /\ ProcIdle
    /\ RepIdle
    /\ TwiceIdle
    /\ IniIdle
    /\ MrgIdle
    /\ CmbIdle

IdleExceptIni ==
    /\ BaseIdle
    /\ ParIdle
    /\ ProcIdle
    /\ RepIdle
    /\ TwiceIdle
    /\ ValIdle
    /\ MrgIdle
    /\ CmbIdle

IdleExceptMrg ==
    /\ BaseIdle
    /\ ParIdle
    /\ ProcIdle
    /\ RepIdle
    /\ TwiceIdle
    /\ ValIdle
    /\ IniIdle
    /\ CmbIdle

IdleExceptCmb ==
    /\ BaseIdle
    /\ ParIdle
    /\ ProcIdle
    /\ RepIdle
    /\ TwiceIdle
    /\ ValIdle
    /\ IniIdle
    /\ MrgIdle

-----------------------------------------------------------------------------
(* Spec: one extractor fed a text in fragments, then finalized; sliced records  *)
(* that the text came in more than one fragment                                *)

Init ==
    /\ impl \in Impls
    /\ text \in Texts
    /\ pos = 0
    /\ sliced = FALSE
    /\ extractor = FreshExtractor(impl)
    /\ pc = "streaming"
    /\ result = NoResult
    /\ sentinel_yielded = FALSE
    /\ AggIdle
    /\ SplitIdle
    /\ LaterIdle

\* feed(fragment): process_streaming_chunk, or the loop body of
\* process_streaming_response
Feed ==
    /\ pc = "streaming"
    /\ pos < Len(text)
    /\ \E k \in FragSizes(Len(text) - pos) :
          /\ pos' = pos + k
          /\ sliced' = (pos > 0 \/ k < Len(text))
          /\ extractor' = IF impl = "analysis"
                          THEN process_streaming_chunk(extractor,
                                                       SubSeq(text, pos + 1, pos + k))
                          ELSE cse_feed(extractor, SubSeq(text, pos + 1, pos + k))
    /\ UNCHANGED <<impl, text, pc, result, sentinel_yielded>>
    /\ UNCHANGED aggVars
    /\ UNCHANGED <<splitVars, laterVars>>

\* finalize(): after the last fragment
Finalize ==
    /\ pc = "streaming"
    /\ pos = Len(text)
    /\ extractor' = IF impl = "analysis" THEN finalize_processing(extractor)
                    ELSE cse_finish(extractor)
    /\ pc' = "done"
    /\ UNCHANGED <<impl, text, pos, sliced, result, sentinel_yielded>>
    /\ UNCHANGED aggVars
    /\ UNCHANGED <<splitVars, laterVars>>

Next == Feed \/ Finalize

Spec == Init /\ [][Next]_vars

-----------------------------------------------------------------------------
(* SpecOverlong: an extractor fed a text of more lines than the chunk processor's     *)
(* limit, in fragments of at most MaxFrag characters                                  *)

InitOverlong ==
    /\ impl \in Impls
    /\ text \in OverlongTexts
    /\ pos = 0
    /\ sliced = FALSE
    /\ extractor = FreshExtractor(impl)
    /\ pc = "streaming"
    /\ result = NoResult
    /\ sentinel_yielded = FALSE
    /\ AggIdle
    /\ SplitIdle
    /\ LaterIdle

\* feed(fragment) with a fragment of at most MaxFrag characters
FeedShort ==
    /\ pc = "streaming"
    /\ pos < Len(text)
    /\ \E k \in 1..Min(MaxFrag, Len(text) - pos) :
          /\ pos' = pos + k
          /\ sliced' = TRUE
          /\ extractor' = IF impl = "analysis"
                          THEN process_streaming_chunk(extractor,
                                                       SubSeq(text, pos + 1, pos + k))
                          ELSE cse_feed(extractor, SubSeq(text, pos + 1, pos + k))
    /\ UNCHANGED <<impl, text, pc, result, sentinel_yielded>>
    /\ UNCHANGED aggVars
    /\ UNCHANGED <<splitVars, laterVars>>

NextOverlong == FeedShort \/ Finalize

SpecOverlong == InitOverlong /\ [][NextOverlong]_vars

-----------------------------------------------------------------------------
(* SpecStream: the stream drivers.  The text source (stream_bedrock_response) yields  *)
(* the fragments of the completion; when it fails it yields the error sentinel, the   *)
(* message of the exception after "Error: ", and ends.                                *)

\* f"Error: {str(e)}"
Sentinel == <<"Error:", "SP", "x">>

\* the result a driver returns once the stream has ended
success_result(p) == [status |-> "success", all_files |-> p.files_created]

InitStream ==
    /\ impl \in Impls
    /\ text \in GeneralTexts
    /\ pos = 0
    /\ sliced = FALSE
    /\ extractor = FreshExtractor(impl)
    /\ pc = "streaming"
    /\ result = NoResult
    /\ sentinel_yielded = FALSE
    /\ AggIdle
    /\ SplitIdle
    /\ LaterIdle

\* the body of the driver's loop for one fragment: process_with_streaming_extraction
\* returns on a fragment that starts with "Error:", process_streaming_response has no
\* such test
Drive(chunk) ==
    IF impl = "analysis"
    THEN IF startswith(chunk, <<"Error:">>)
         THEN /\ result' = [status |-> "error", error |-> chunk]
              /\ pc' = "done"
              /\ UNCHANGED extractor
         ELSE /\ extractor' = process_streaming_chunk(extractor, chunk)
              /\ UNCHANGED <<result, pc>>
    ELSE /\ extractor' = cse_feed(extractor, chunk)
         /\ UNCHANGED <<result, pc>>

\* the source yields the next fragment of the completion
StreamText ==
    /\ pc = "streaming"
    /\ ~sentinel_yielded
    /\ pos < Len(text)
    /\ \E k \in FragSizes(Len(text) - pos) :
          /\ pos' = pos + k
          /\ Drive(SubSeq(text, pos + 1, pos + k))
    /\ UNCHANGED <<impl, text, sliced, sentinel_yielded>>
    /\ UNCHANGED aggVars
    /\ UNCHANGED <<splitVars, laterVars>>

\* the source fails: it yields the sentinel as its last fragment
StreamException ==
    /\ pc = "streaming"
    /\ ~sentinel_yielded
    /\ sentinel_yielded' = TRUE
    /\ Drive(Sentinel)
    /\ UNCHANGED <<impl, text, pos, sliced>>
    /\ UNCHANGED aggVars
    /\ UNCHANGED <<splitVars, laterVars>>

\* the source is exhausted: the driver finalizes and returns success
StreamEnd ==
    /\ pc = "streaming"
    /\ pos = Len(text) \/ sentinel_yielded
    /\ extractor' = IF impl = "analysis" THEN finalize_processing(extractor)
                    ELSE cse_finish(extractor)
    /\ result' = success_result(extractor')
    /\ pc' = "done"
    /\ UNCHANGED <<impl, text, pos, sliced, sentinel_yielded>>
    /\ UNCHANGED aggVars
    /\ UNCHANGED <<splitVars, laterVars>>

NextStream == StreamText \/ StreamException \/ StreamEnd

SpecStream == InitStream /\ [][NextStream]_vars

-----------------------------------------------------------------------------
(* SpecAgg: the aggregation of the chunk results, by aggregate_chunk_results for the *)
(* lambda_handler of the analysis lambda and by the loop of the lambda_handler of    *)
(* the result-aggregator lambda.  A chunk result is a record: its status, its chunk  *)
(* index, whether it names a result key, and the sections of its content.            *)

MaxChunks == 3

AggSections == {"LAMBDA", "README"}

Handlers == {"analysis", "result-aggregator"}

\* the content of a chunk for a section
ChunkText(i, section) == <<"text", ToString(i), section>>

\* result.get('service_contents', {}), or the object stored under result_key
service_contents(r) == [section \in r.sections |-> ChunkText(r.chunk_index, section)]

\* what a chunk result holds besides its index; aggregate_chunk_results reads no
\* result key
ChunkShapes(h) ==
    [status : {"success", "error"},
     result_key : IF h = "analysis" THEN {TRUE} ELSE BOOLEAN,
     sections : SUBSET AggSections]

\* the lists of n chunk results, the i-th of chunk i
ChunkResultsOf(h, n) ==
    {[i \in 1..n |-> [status |-> f[i].status, chunk_index |-> i,
                      result_key |-> f[i].result_key, sections |-> f[i].sections]] :
        f \in [1..n -> ChunkShapes(h)]}

\* f"\n\n### Additional Analysis from Chunk {chunk_index}\n\n"
Delimiter(chunk_index) ==
    <<"NL", "NL", "#", "#", "#", "SP", "Additional Analysis from Chunk", "SP",
      ToString(chunk_index), "NL", "NL">>

is_failed_never(r) == FALSE

\* result.get('status') == 'error'
is_failed(r) == r.status = "error"

merge_overwriting(agg, contents, chunk_index) ==
    [section \in DOMAIN agg \cup DOMAIN contents |->
        IF section \in DOMAIN contents THEN contents[section] ELSE agg[section]]

\* for service_type, content in service_contents.items(): the first content of a
\* section is stored, a later one appended after the delimiter
merge_contents(agg, contents, chunk_index) ==
    [section \in DOMAIN agg \cup DOMAIN contents |->
        IF section \notin DOMAIN contents THEN agg[section]
        ELSE IF section \notin DOMAIN agg THEN contents[section]
        ELSE agg[section] \o Delimiter(chunk_index) \o contents[section]]

InitAgg ==
    /\ handler \in Handlers
    /\ \E n \in 0..MaxChunks :
          /\ handler = "analysis" => n > 0
          /\ chunk_results \in ChunkResultsOf(handler, n)
    /\ agg_i = 0
    /\ aggregated = <<>>
    /\ job_status = IF handler = "analysis" THEN "PROCESSING_CHUNKS" ELSE "AGGREGATING"
    /\ handler_result = NoResult
    /\ read_failed = {}
    /\ impl = "none"
    /\ text = <<>>
    /\ pos = 0
    /\ sliced = FALSE
    /\ extractor = FreshExtractor("analysis")
    /\ pc = "idle"
    /\ result = NoResult
    /\ sentinel_yielded = FALSE
    /\ SplitIdle
    /\ LaterIdle

InLoop == handler_result = NoResult /\ agg_i < Len(chunk_results)

\* an iteration that continues: a failed chunk, or (result-aggregator) a result
\* without result key
AggSkip ==
    /\ InLoop
    /\ LET r == chunk_results[agg_i + 1] IN
          is_failed(r) \/ (handler = "result-aggregator" /\ ~r.result_key)
    /\ agg_i' = agg_i + 1
    /\ UNCHANGED <<handler, chunk_results, aggregated, job_status, handler_result,
                   read_failed>>
    /\ UNCHANGED streamVars
    /\ UNCHANGED <<splitVars, laterVars>>

\* an iteration that merges the chunk's content
AggMerge ==
    /\ InLoop
    /\ LET r == chunk_results[agg_i + 1] IN
          /\ ~is_failed(r)
          /\ handler = "result-aggregator" => r.result_key
          /\ aggregated' = merge_contents(aggregated, service_contents(r),
                                          IF handler = "analysis" THEN agg_i + 1
                                          ELSE r.chunk_index)
    /\ agg_i' = agg_i + 1
    /\ UNCHANGED <<handler, chunk_results, job_status, handler_result, read_failed>>
    /\ UNCHANGED streamVars
    /\ UNCHANGED <<splitVars, laterVars>>

\* result-aggregator: get_object or json.loads raises, the iteration continues
AggReadFails ==
    /\ InLoop
    /\ handler = "result-aggregator"
    /\ LET r == chunk_results[agg_i + 1] IN ~is_failed(r) /\ r.result_key
    /\ read_failed' = read_failed \cup {agg_i + 1}
    /\ agg_i' = agg_i + 1
    /\ UNCHANGED <<handler, chunk_results, aggregated, job_status, handler_result>>
    /\ UNCHANGED streamVars
    /\ UNCHANGED <<splitVars, laterVars>>

\* after the loop: the analysis lambda ends the job in ERROR when nothing was
\* aggregated, the result-aggregator lambda has no such test
AggReturn ==
    /\ handler_result = NoResult
    /\ agg_i = Len(chunk_results)
    /\ IF handler = "analysis" /\ DOMAIN aggregated = {}
       THEN /\ job_status' = "ERROR"
            /\ handler_result' = [status |-> "error",
                                  error |-> "Failed to get results from any chunks"]
       ELSE /\ job_status' = "COMPLETED"
            /\ handler_result' = [status |-> "success"]
    /\ UNCHANGED <<handler, chunk_results, agg_i, aggregated, read_failed>>
    /\ UNCHANGED streamVars
    /\ UNCHANGED <<splitVars, laterVars>>

NextAgg == AggSkip \/ AggMerge \/ AggReadFails \/ AggReturn

SpecAgg == InitAgg /\ [][NextAgg]_vars

-----------------------------------------------------------------------------
(* create_chunks of the analysis lambda: the text is cut into pieces of at most       *)
(* max_chunk_size characters.  Offsets count from 0 as in the code; every character   *)
(* of a text to split is a token of length one.                                       *)

MaxSplitLen == 4
MaxBudget == 4

SplitAlphabet == {"x", ".", "SP", "NL"}

\* texts in which a window of four characters holds boundaries of two types, the type
\* earlier in the code's list ending before the other
TwoBoundaryTexts ==
    {<<"x", ".", "SP", "SP", "x">>,
     <<"x", "NL", "NL", "SP", "x">>,
     <<"x", "NL", "NL", "NL", "x">>,
     <<"x", ".", "SP", "NL", "x", "SP", "x">>}

SplitTexts == UNION {[1..n -> SplitAlphabet] : n \in 0..MaxSplitLen} \cup TwoBoundaryTexts

\* text[a:b]
Slice(t, a, b) == SubSeq(t, a + 1, b)

\* for boundary in ['\n\n', '. ', '\n', ' ']
boundaries == <<(<<"NL", "NL">>), (<<".", "SP">>), (<<"NL">>), (<<"SP">>)>>

\* text.rfind(boundary, start, end): the highest offset of an occurrence that lies
\* within text[start:end], -1 when there is none
rfind(t, boundary, start, end) ==
    LET found == {i \in start..(end - Len(boundary)) :
                     Slice(t, i, i + Len(boundary)) = boundary}
    IN IF found = {} THEN -1 ELSE CHOOSE i \in found : \A j \in found : j <= i

chunk_end_target_plus_one(t, cur, max_chunk_size) ==
    Min(cur + max_chunk_size + 1, Len(t))

chunk_end_target_minus_one(t, cur, max_chunk_size) ==
    Min(cur + max_chunk_size - 1, Len(t))

\* chunk_end = min(current_pos + max_chunk_size, len(text))
chunk_end_target(t, cur, max_chunk_size) == Min(cur + max_chunk_size, Len(t))

natural_boundary_from_start(t, cur, target, k) ==
    IF \E j \in k..Len(boundaries) : rfind(t, boundaries[j], cur, target) >= cur
    THEN LET j == CHOOSE j \in k..Len(boundaries) :
                     /\ rfind(t, boundaries[j], cur, target) >= cur
                     /\ \A h \in k..(j - 1) : rfind(t, boundaries[h], cur, target) < cur
         IN rfind(t, boundaries[j], cur, target) + Len(boundaries[j])
    ELSE target

\* the loop over the boundaries from the k-th on: the end of the last occurrence of the
\* first boundary found after current_pos, else the target
RECURSIVE natural_boundary(_, _, _, _)
natural_boundary(t, cur, target, k) ==
    IF k > Len(boundaries) THEN target
    ELSE LET last_boundary == rfind(t, boundaries[k], cur, target) IN
         IF last_boundary > cur THEN last_boundary + Len(boundaries[k])
         ELSE natural_boundary(t, cur, target, k + 1)

\* the end of the chunk that starts at offset cur
chunk_end_at(t, cur, max_chunk_size) ==
    LET target == chunk_end_target(t, cur, max_chunk_size) IN
    IF target < Len(t) THEN natural_boundary(t, cur, target, 1) ELSE target

-----------------------------------------------------------------------------
(* create_chunks of the chunking lambda: documents, paragraphs and sentences are      *)
(* packed into chunks by their estimated token counts.  In a text to split "B" is a   *)
(* run of 200 ordinary characters, "H" one of 2400, "P" one of 86, "FILESEP" a        *)
(* separator line "--- FILE: name ---" with its two newlines, "DOCUMENTATION:" the    *)
(* marker that ends the prompt, and "DEFAULT_PROMPT" the prompt the code supplies     *)
(* when the marker is missing.                                                        *)

\* the buffer subtracted from the budget
TokenBuffer == 500

\* char_count // 4
estimate_token_count(s) == StrLen(s) \div 4

\* full_text.find("DOCUMENTATION:"): the index of the marker, 0 when there is none
RECURSIVE find_marker(_, _)
find_marker(s, i) ==
    IF i > Len(s) THEN 0
    ELSE IF s[i] = "DOCUMENTATION:" THEN i ELSE find_marker(s, i + 1)

prompt_part_of(s) ==
    IF find_marker(s, 1) # 0 THEN SubSeq(s, 1, find_marker(s, 1))
    ELSE <<"DEFAULT_PROMPT">>

documentation_of(s) ==
    IF find_marker(s, 1) # 0 THEN SubSeq(s, find_marker(s, 1) + 1, Len(s)) ELSE s

\* the index of the first token of s from i on that satisfies nothing but tok
RECURSIVE find_token(_, _, _)
find_token(s, tok, i) ==
    IF i > Len(s) THEN 0 ELSE IF s[i] = tok THEN i ELSE find_token(s, tok, i + 1)

\* re.split(r'(--- FILE: .*? ---\n\n)', documentation): the separators are kept
RECURSIVE split_documents(_)
split_documents(s) ==
    LET i == find_token(s, "FILESEP", 1) IN
    IF i = 0 THEN <<s>>
    ELSE <<SubSeq(s, 1, i - 1), <<"FILESEP">>>> \o split_documents(SubSeq(s, i + 1, Len(s)))

\* the length of the run of tokens of cls that starts at i
RECURSIVE run_length(_, _, _)
run_length(s, cls, i) ==
    IF i > Len(s) \/ s[i] \notin cls THEN 0 ELSE 1 + run_length(s, cls, i + 1)

\* the first index from i on where a run of two or more newlines starts
RECURSIVE find_paragraph_break(_, _)
find_paragraph_break(s, i) ==
    IF i > Len(s) THEN 0
    ELSE IF run_length(s, {"NL"}, i) >= 2 THEN i ELSE find_paragraph_break(s, i + 1)

\* re.split(r'\n\n+', doc)
RECURSIVE split_paragraphs(_)
split_paragraphs(s) ==
    LET i == find_paragraph_break(s, 1) IN
    IF i = 0 THEN <<s>>
    ELSE <<SubSeq(s, 1, i - 1)>>
         \o split_paragraphs(SubSeq(s, i + run_length(s, {"NL"}, i), Len(s)))

\* the first index from i on of a whitespace character that follows a full stop
RECURSIVE find_sentence_break(_, _)
find_sentence_break(s, i) ==
    IF i > Len(s) THEN 0
    ELSE IF i > 1 /\ s[i] \in Whitespace /\ s[i - 1] = "." THEN i
    ELSE find_sentence_break(s, i + 1)

\* re.split(r'(?<=[.!?])\s+', para)
RECURSIVE split_sentences(_)
split_sentences(s) ==
    LET i == find_sentence_break(s, 1) IN
    IF i = 0 THEN <<s>>
    ELSE <<SubSeq(s, 1, i - 1)>>
         \o split_sentences(SubSeq(s, i + run_length(s, Whitespace, i), Len(s)))

\* chunks.append(prompt_part + "\n\n" + current_chunk)
finalize_chunk(st, prompt_part) ==
    [st EXCEPT !.chunks = Append(@, prompt_part \o <<"NL", "NL">> \o st.current_chunk),
               !.current_chunk = <<>>,
               !.current_chunk_tokens = 0]

add_piece_replacing(st, piece, joiner, available_tokens, prompt_part) ==
    IF st.current_chunk_tokens + estimate_token_count(piece) > available_tokens
       /\ st.current_chunk # <<>>
    THEN [finalize_chunk(st, prompt_part) EXCEPT
            !.current_chunk = piece,
            !.current_chunk_tokens = estimate_token_count(piece)]
    ELSE [st EXCEPT
            !.current_chunk = piece,
            !.current_chunk_tokens = @ + estimate_token_count(piece)]

\* a document, paragraph or sentence joins the current chunk, or starts the next one
\* when it does not fit and the current chunk has content
add_piece(st, piece, joiner, available_tokens, prompt_part) ==
    IF st.current_chunk_tokens + estimate_token_count(piece) > available_tokens
       /\ st.current_chunk # <<>>
    THEN [finalize_chunk(st, prompt_part) EXCEPT
            !.current_chunk = piece,
            !.current_chunk_tokens = estimate_token_count(piece)]
    ELSE [st EXCEPT
            !.current_chunk = IF @ # <<>> THEN @ \o joiner \o piece ELSE piece,
            !.current_chunk_tokens = @ + estimate_token_count(piece)]

RECURSIVE add_sentences(_, _, _, _)
add_sentences(st, sentences, available_tokens, prompt_part) ==
    IF sentences = <<>> THEN st
    ELSE add_sentences(add_piece(st, Head(sentences), <<"SP">>, available_tokens,
                                 prompt_part),
                       Tail(sentences), available_tokens, prompt_part)

RECURSIVE add_paragraphs(_, _, _, _)
add_paragraphs(st, paragraphs, available_tokens, prompt_part) ==
    IF paragraphs = <<>> THEN st
    ELSE LET para == Head(paragraphs)
             next == IF estimate_token_count(para) > available_tokens
                     THEN add_sentences(st, split_sentences(para), available_tokens,
                                        prompt_part)
                     ELSE add_piece(st, para, <<"NL", "NL">>, available_tokens,
                                    prompt_part)
         IN add_paragraphs(next, Tail(paragraphs), available_tokens, prompt_part)

\* the body of for doc in documents
add_document(st, doc, available_tokens, prompt_part) ==
    IF strip(doc) = <<>> THEN st
    ELSE IF estimate_token_count(doc) > available_tokens
    THEN add_paragraphs(IF st.current_chunk # <<>> THEN finalize_chunk(st, prompt_part)
                        ELSE st,
                        split_paragraphs(doc), available_tokens, prompt_part)
    ELSE add_piece(st, doc, <<>>, available_tokens, prompt_part)

RECURSIVE add_documents(_, _, _, _)
add_documents(st, documents, available_tokens, prompt_part) ==
    IF documents = <<>> THEN st
    ELSE add_documents(add_document(st, Head(documents), available_tokens, prompt_part),
                       Tail(documents), available_tokens, prompt_part)

create_chunks(s, max_tokens_per_chunk) ==
    LET prompt_part == prompt_part_of(s)
        available_tokens ==
            max_tokens_per_chunk - estimate_token_count(prompt_part) - TokenBuffer
        st == add_documents([chunks |-> <<>>, current_chunk |-> <<>>,
                             current_chunk_tokens |-> 0],
                            split_documents(documentation_of(s)),
                            available_tokens, prompt_part)
    IN IF st.current_chunk # <<>> THEN finalize_chunk(st, prompt_part).chunks
       ELSE st.chunks

\* the texts the chunking lambda splits: an optional prompt with the marker or leading
\* separator, then up to MaxPieces pieces (a word, a sentence or nothing), each with a
\* separator after it
MaxPieces == 2

Pieces == {<<>>, <<"B">>, <<"B", ".">>, <<"H">>}

Separators == {<<>>, <<"SP">>, <<"NL">>, <<"NL", "NL">>, <<"FILESEP">>}

Leads == Separators \cup {<<"P", "DOCUMENTATION:">>}

RECURSIVE Flatten(_)
Flatten(ss) == IF ss = <<>> THEN <<>> ELSE Head(ss) \o Flatten(Tail(ss))

ChunkingTexts ==
    {lead \o Flatten(ps) :
        lead \in Leads,
        ps \in UNION {[1..n -> {p \o sep : p \in Pieces, sep \in Separators}] :
                         n \in 0..MaxPieces}}

\* budgets that leave 73 and 100 tokens for the content of a chunk under the default
\* prompt
ChunkingBudgets == {600, 627}

InitSplit ==
    /\ SplitIdle
    /\ LaterIdle
    /\ impl = "none"
    /\ text = <<>>
    /\ pos = 0
    /\ sliced = FALSE
    /\ extractor = FreshExtractor("analysis")
    /\ pc = "idle"
    /\ result = NoResult
    /\ sentinel_yielded = FALSE
    /\ AggIdle

\* a caller passes a text and a budget to the analysis lambda's create_chunks
SplitCall ==
    /\ split_pc = "idle"
    /\ splitter' = "analysis"
    /\ full_text' \in SplitTexts
    /\ max_size' \in 0..MaxBudget
    /\ split_pc' = "start"
    /\ UNCHANGED <<current_pos, chunks, last_cut>>
    /\ UNCHANGED <<streamVars, aggVars, laterVars>>

\* the chunking lambda's handler passes the text it assembled and its budget
ChunkingCall ==
    /\ split_pc = "idle"
    /\ splitter' = "chunking"
    /\ full_text' \in ChunkingTexts
    /\ max_size' \in ChunkingBudgets
    /\ split_pc' = "start"
    /\ UNCHANGED <<current_pos, chunks, last_cut>>
    /\ UNCHANGED <<streamVars, aggVars, laterVars>>

\* if len(text) <= max_chunk_size: return [text]
SplitWhole ==
    /\ splitter = "analysis"
    /\ split_pc = "start"
    /\ Len(full_text) <= max_size
    /\ chunks' = <<full_text>>
    /\ split_pc' = "done"
    /\ UNCHANGED <<splitter, full_text, max_size, current_pos, last_cut>>
    /\ UNCHANGED <<streamVars, aggVars, laterVars>>

\* chunks = []; current_pos = 0
SplitEnterLoop ==
    /\ splitter = "analysis"
    /\ split_pc = "start"
    /\ Len(full_text) > max_size
    /\ chunks' = <<>>
    /\ current_pos' = 0
    /\ split_pc' = "loop"
    /\ UNCHANGED <<splitter, full_text, max_size, last_cut>>
    /\ UNCHANGED <<streamVars, aggVars, laterVars>>

\* one iteration of while current_pos < len(text); with a budget of 0 chunk_end is
\* current_pos, the iteration changes nothing and the loop runs on without end
SplitStep ==
    /\ split_pc = "loop"
    /\ current_pos < Len(full_text)
    /\ LET chunk_end == chunk_end_at(full_text, current_pos, max_size)
           chunk == strip(Slice(full_text, current_pos, chunk_end))
       IN /\ chunks' = IF chunk # <<>> THEN Append(chunks, chunk) ELSE chunks
          /\ current_pos' = chunk_end
          /\ last_cut' = [start |-> current_pos,
                          target |-> chunk_end_target(full_text, current_pos, max_size),
                          end |-> chunk_end]
    /\ UNCHANGED <<splitter, full_text, max_size, split_pc>>
    /\ UNCHANGED <<streamVars, aggVars, laterVars>>

\* the loop is over: return chunks
SplitReturn ==
    /\ split_pc = "loop"
    /\ current_pos >= Len(full_text)
    /\ split_pc' = "done"
    /\ UNCHANGED <<splitter, full_text, max_size, current_pos, chunks, last_cut>>
    /\ UNCHANGED <<streamVars, aggVars, laterVars>>

\* create_chunks of the chunking lambda
CreateChunks ==
    /\ splitter = "chunking"
    /\ split_pc = "start"
    /\ chunks' = create_chunks(full_text, max_size)
    /\ split_pc' = "done"
    /\ UNCHANGED <<splitter, full_text, max_size, current_pos, last_cut>>
    /\ UNCHANGED <<streamVars, aggVars, laterVars>>

NextSplit ==
    \/ SplitCall \/ SplitWhole \/ SplitEnterLoop \/ SplitStep \/ SplitReturn
    \/ ChunkingCall \/ CreateChunks

\* the steps of the analysis lambda's create_chunks once it has been called
SplitRun == SplitWhole \/ SplitEnterLoop \/ SplitStep \/ SplitReturn

NextSplitRun == SplitCall \/ SplitRun

SpecSplit == InitSplit /\ [][NextSplit]_vars

\* the loop is scheduled as long as it can run
SpecSplitFair == InitSplit /\ [][NextSplitRun]_vars /\ WF_vars(SplitRun)

-----------------------------------------------------------------------------
(* SpecPar: the chunk processors of several chunks of one job run side by side, each  *)
(* with its own ChunkStreamingExtractor; all of them write under the same output      *)
(* prefix.                                                                            *)

MaxInstances == 2

\* file headers whose names hold the chunk identifier of a chunk, or have no extension
FileHdrChunk(k) == <<"#", "#", "#", "a", "_chunk", ToString(k), ".py">>
DockerHdr == <<"#", "#", "#", "Dockerfile">>
DockerHdrChunk(k) == <<"#", "#", "#", "Dockerfile", "_chunk", ToString(k)>>

\* the completions of the chunks: a file of an artifact section under one of the names,
\* or a documentation section
ParTexts ==
    {join_lines(<<SecArtifact, hdr, Long, Blank>>) :
        hdr \in {FileHdr, FileHdrChunk(1), FileHdrChunk(2), DockerHdr, DockerHdrChunk(2)}}
    \cup {join_lines(<<SecDoc, Long, Blank>>)}

\* ChunkStreamingExtractor(bucket_name, f"{output_path}/aws-artifacts", chunk_index)
InitPar ==
    /\ \E ts \in [1..MaxInstances -> ParTexts] :
          instances = [i \in 1..MaxInstances |->
                          [extractor |-> NewExtractor("out/aws-artifacts", i),
                           text |-> ts[i], pos |-> 0, pc |-> "streaming"]]
    /\ IdleExceptPar

\* the end of the line of t that starts after offset from
LineEnd(t, from) == IF FindNL(t, from + 1) = 0 THEN Len(t) ELSE FindNL(t, from + 1)

\* the stream of chunk i delivers its next line
ParFeed(i) ==
    /\ instances[i].pc = "streaming"
    /\ instances[i].pos < Len(instances[i].text)
    /\ LET e == LineEnd(instances[i].text, instances[i].pos) IN
       instances' = [instances EXCEPT
                        ![i].extractor =
                            cse_feed(@, SubSeq(instances[i].text, instances[i].pos + 1, e)),
                        ![i].pos = e]
    /\ UNCHANGED exceptPar

\* the stream of chunk i has ended
ParFinish(i) ==
    /\ instances[i].pc = "streaming"
    /\ instances[i].pos = Len(instances[i].text)
    /\ instances' = [instances EXCEPT ![i].extractor = cse_finish(@), ![i].pc = "done"]
    /\ UNCHANGED exceptPar

NextPar == \E i \in 1..MaxInstances : ParFeed(i) \/ ParFinish(i)

SpecPar == InitPar /\ [][NextPar]_vars

-----------------------------------------------------------------------------
(* What a finished extractor emitted, and the reference runs *)

\* the artifacts in emission order, and the objects put to the sink
Outcome(p) == <<p.files_created, p.s3>>

Feed1(i, p, chunk) ==
    IF i = "analysis" THEN process_streaming_chunk(p, chunk) ELSE cse_feed(p, chunk)

Finish(i, p) == IF i = "analysis" THEN finalize_processing(p) ELSE cse_finish(p)

Save(i, p) == IF i = "analysis" THEN save_current_file(p) ELSE cse_save_current_file(p)

\* the whole text as one fragment
parse_whole(i, t) == Finish(i, Feed1(i, FreshExtractor(i), t))

\* the text one character at a time, up to its n-th character: p.fed tells how much of
\* t the extractor p has taken; a character, then the first half of the characters
\* left, then the second half
RECURSIVE feed_chars_upto(_, _, _, _)
feed_chars_upto(i, p, t, n) ==
    IF Len(p.fed) >= n THEN p
    ELSE LET q == Feed1(i, p, <<t[Len(p.fed) + 1]>>)
             half == feed_chars_upto(i, q, t, n - (n - Len(q.fed)) \div 2)
         IN IF Len(half.fed) >= n THEN half ELSE feed_chars_upto(i, half, t, n)

feed_chars(i, p, t) == feed_chars_upto(i, p, t, Len(t))

parse_chars(i, t) == Finish(i, feed_chars(i, FreshExtractor(i), t))

Done == pc = "done"

Lines == split_lines(text)

IsSectionHeader(line) == detect_section(strip(line)) # None

IsFileHeader(line) ==
    IF impl = "analysis" THEN detect_file(strip(line)) # None
    ELSE cse_detect_file(strip(line)) # None

IsHeader(line) == IsSectionHeader(line) \/ IsFileHeader(line)

MinSize == IF impl = "analysis" THEN MinFileSize ELSE CseMinFileSize

LineLimit == IF impl = "analysis" THEN MaxBufferedLines ELSE CseMaxBufferedLines

-----------------------------------------------------------------------------
\* C1: whatever the slicing of the text into fragments, the finished extractor has
\* emitted the artifacts (names, sections, contents, order) that the whole text fed at
\* once yields, and that the text fed one character at a time yields.
C1_FragmentIndependent ==
    Done => /\ Outcome(extractor) = Outcome(parse_whole(impl, text))
            /\ Outcome(extractor) = Outcome(parse_chars(impl, text))

\* a text that came in more than one fragment and yields an artifact
C1_Witness ==
    /\ Done
    /\ sliced
    /\ extractor.files_created # <<>>

\* C2: a stream without any section header line, and with content of at least the
\* minimum size, ends with exactly one artifact, tagged with the catch-all section.
C2_NoHeaderCatchAll ==
    (/\ Done
     /\ \A i \in 1..Len(Lines) : ~IsSectionHeader(Lines[i])
     /\ StrLen(strip(text)) >= MinSize)
    => /\ Len(extractor.files_created) = 1
       /\ extractor.files_created[1].section = "OTHER_SERVICES"

-----------------------------------------------------------------------------
(* Streams of the form: artifact-section header, file header, content lines, closing *)
(* fence                                                                             *)

\* the index of the first line from i on that satisfies nothing but a closing fence,
\* 0 when there is none
RECURSIVE FirstFence(_, _)
FirstFence(ls, i) ==
    IF i > Len(ls) THEN 0
    ELSE IF strip(ls[i]) = <<"FENCE">> THEN i ELSE FirstFence(ls, i + 1)

FenceAt == FirstFence(Lines, 3)

\* the content lines between the file header and the closing fence
FileContent == SubSeq(Lines, 3, FenceAt - 1)

IsFileStream ==
    /\ Len(Lines) >= 3
    /\ IsSectionHeader(Lines[1])
    /\ detect_section(strip(Lines[1])) \notin documentation_sections
    /\ ~IsSectionHeader(Lines[2]) /\ IsFileHeader(Lines[2])
    /\ FenceAt # 0
    /\ \A i \in 3..(FenceAt - 1) : ~IsHeader(Lines[i])
    /\ \A i \in (FenceAt + 1)..Len(Lines) : Lines[i] = <<>>
    /\ Len(Lines) <= FenceAt + 1

\* the lines that are no fence lines (lines whose first characters are a fence)
NoFences(content) ==
    LET Kept(line) == ~(strip(line) # <<>> /\ Head(strip(line)) = "FENCE")
    IN SelectSeq(content, Kept)

\* without its fence lines the content neither starts nor ends with a blank line, has
\* the minimum size, and it stays within the hard line limit
KeptVerbatim(content) ==
    LET kept == NoFences(content) IN
    /\ kept # <<>>
    /\ strip(kept[1]) # <<>>
    /\ strip(kept[Len(kept)]) # <<>>
    /\ StrLen(strip(join_lines(kept))) >= MinSize
    /\ Len(content) <= LineLimit

OneArtifactWith(content) ==
    /\ Len(extractor.files_created) = 1
    /\ Len(extractor.s3) = 1
    /\ extractor.s3[1].Body = join_lines(content)
    /\ extractor.files_created[1].section = detect_section(strip(Lines[1]))

\* C3 as stated: for every N and every choice of the N content lines, such a stream
\* ends with exactly one artifact, whose content is the N lines verbatim without the
\* fence lines.
C3_Original == (Done /\ IsFileStream) => OneArtifactWith(NoFences(FileContent))

\* C3, amended: the same, for content lines of which, fence lines aside, the first and
\* the last are not blank, that together have at least the minimum size, and that are
\* at most the hard line limit in number.
C3_FenceClosedFile ==
    (Done /\ IsFileStream /\ KeptVerbatim(FileContent))
    => OneArtifactWith(NoFences(FileContent))

\* such a stream whose file the closing fence completes (more than FenceMinLines lines
\* are buffered when it arrives), in more than one fragment
C3_Witness ==
    /\ Done
    /\ sliced
    /\ IsFileStream
    /\ KeptVerbatim(FileContent)
    /\ Len(FileContent) >= FenceMinLines
    /\ Len(Lines) = FenceAt + 1
    /\ Len(extractor.files_created) = 1

-----------------------------------------------------------------------------
(* Streams of the form: documentation-section header, lines without a header, the *)
(* header of another section                                                      *)

RECURSIVE FirstSectionHeader(_, _)
FirstSectionHeader(ls, i) ==
    IF i > Len(ls) THEN 0
    ELSE IF detect_section(strip(ls[i])) # None THEN i ELSE FirstSectionHeader(ls, i + 1)

NextHeaderAt == FirstSectionHeader(Lines, 2)

DocSection == detect_section(strip(Lines[1]))

DocContent == SubSeq(Lines, 2, NextHeaderAt - 1)

IsDocStream ==
    /\ Len(Lines) >= 2
    /\ DocSection \in documentation_sections
    /\ NextHeaderAt # 0
    /\ detect_section(strip(Lines[NextHeaderAt])) # DocSection
    /\ \A i \in 2..(NextHeaderAt - 1) : ~IsHeader(Lines[i])
    /\ \A i \in (NextHeaderAt + 1)..Len(Lines) : Lines[i] = <<>>

\* the artifacts of a section, by their index in files_created
ArtifactsOf(section) ==
    {i \in 1..Len(extractor.files_created) : extractor.files_created[i].section = section}

\* the default name of the section's file, as files_created records it
CanonicalName(section) ==
    IF impl = "analysis" THEN doc_filename(section)
    ELSE chunk_filename(cse_doc_filename(section, extractor.chunk_index),
                        extractor.chunk_index)

OneDocArtifact ==
    /\ Cardinality(ArtifactsOf(DocSection)) = 1
    /\ \A i \in ArtifactsOf(DocSection) :
          extractor.files_created[i].filename = CanonicalName(DocSection)

\* a completion heuristic of ChunkStreamingExtractor fires on one of the lines: a closing
\* fence after more than CseFenceMinLines lines, a blank line after more than
\* CseDocBreakLines lines, or more than CseMaxBufferedLines lines
DocHeuristicFires(content) ==
    /\ impl = "chunk"
    /\ \E j \in 1..Len(content) :
          \/ strip(content[j]) = <<"FENCE">> /\ j > CseFenceMinLines
          \/ strip(content[j]) = <<>> /\ j > CseDocBreakLines
          \/ j > CseMaxBufferedLines

\* C4 as stated: a documentation section followed by another section header, with no
\* file header, yields exactly one artifact of that section, under its default name.
C4_Original == (Done /\ IsDocStream) => OneDocArtifact

\* C4, amended: the same, when the section's cleaned content has at least the minimum
\* size and no completion heuristic fires inside the section.
C4_DocSectionOneArtifact ==
    (/\ Done
     /\ IsDocStream
     /\ StrLen(strip(clean_file_content(join_lines(DocContent)))) >= MinSize
     /\ ~DocHeuristicFires(DocContent))
    => OneDocArtifact

C4_Witness ==
    /\ Done
    /\ sliced
    /\ IsDocStream
    /\ StrLen(strip(clean_file_content(join_lines(DocContent)))) >= MinSize
    /\ ~DocHeuristicFires(DocContent)
    /\ Len(DocContent) > 1
    /\ Cardinality(ArtifactsOf(DocSection)) = 1

-----------------------------------------------------------------------------
\* C5: a flush of an open file with buffered content leaves no current file and an empty
\* buffer, whether or not it emits an artifact.  The flush looked at is the one finalize
\* starts with when the stream has ended.
C5_FlushResets ==
    (/\ pc = "streaming"
     /\ pos = Len(text)
     /\ extractor.current_file # None
     /\ extractor.current_content # <<>>)
    => /\ Save(impl, extractor).current_file = None
       /\ Save(impl, extractor).current_content = <<>>

\* C6: a text that ends in an unterminated line finishes with the artifacts of the same
\* text with that line newline-terminated.
C6_TrailingLineAsFinalLine ==
    (Done /\ text # <<>> /\ text[Len(text)] # "NL")
    => Outcome(extractor) = Outcome(parse_whole(impl, text \o <<"NL">>))

-----------------------------------------------------------------------------
\* C7: once the source has yielded the error sentinel, the parser has been fed the
\* fragments of the completion and nothing else, and the driver returns status error.
C7_SentinelFailsChunk ==
    sentinel_yielded
    => /\ extractor.fed = SubSeq(text, 1, pos)
       /\ Done => result.status = "error"

-----------------------------------------------------------------------------
(* Aggregation *)

\* the chunk results among the first n whose content the loop has merged: successful,
\* and for the result-aggregator with a result key that could be read
Merged(n) ==
    {i \in 1..n : /\ chunk_results[i].status = "success"
                  /\ handler = "result-aggregator" => chunk_results[i].result_key
                  /\ i \notin read_failed}

\* those of them that contain the section, in chunk order
Contributors(section, n) ==
    LET Contains(i) == i \in Merged(n) /\ section \in chunk_results[i].sections
    IN SelectSeq([i \in 1..n |-> i], Contains)

\* the first content, then each later one after the delimiter naming its chunk
RECURSIVE Appended(_, _)
Appended(cs, section) ==
    IF Len(cs) = 1 THEN ChunkText(cs[1], section)
    ELSE Appended(SubSeq(cs, 1, Len(cs) - 1), section)
         \o <<"NL", "NL", "#", "#", "#", "SP", "Additional Analysis from Chunk", "SP",
              ToString(cs[Len(cs)]), "NL", "NL">>
         \o ChunkText(cs[Len(cs)], section)

AggDone == handler_result # NoResult

C9_EmptyAggregationFails ==
    (AggDone /\ DOMAIN aggregated = {})
    => job_status = "ERROR" /\ handler_result.status = "error"

\* the text of chunk i occurs in s
Occurs(i, s) ==
    \E k \in 1..(Len(s) - 1) : s[k] = "text" /\ s[k + 1] = ToString(i)

\* C10: the text of a failed chunk occurs nowhere in the aggregate, and once the loop
\* is over the text of every merged chunk occurs in the entry of each of its sections.
C10_FailedChunksSkipped ==
    /\ \A i \in 1..Len(chunk_results) :
          chunk_results[i].status = "error"
          => \A section \in DOMAIN aggregated : ~Occurs(i, aggregated[section])
    /\ AggDone
       => \A i \in Merged(Len(chunk_results)) :
             \A section \in chunk_results[i].sections :
                /\ section \in DOMAIN aggregated
                /\ Occurs(i, aggregated[section])

\* a failed chunk that carries content, between two merged chunks of the same section
C10_Witness ==
    /\ AggDone
    /\ \E i \in 2..(Len(chunk_results) - 1) :
          /\ chunk_results[i].status = "error"
          /\ chunk_results[i].sections # {}
          /\ \E section \in chunk_results[i].sections :
                /\ Contributors(section, i - 1) # <<>>
                /\ Len(Contributors(section, agg_i)) > Len(Contributors(section, i - 1))

-----------------------------------------------------------------------------
\* C17: no object of the sink is written twice: the flushes of one extractor all put
\* to different paths.
C17_WrittenOnce ==
    \A i, j \in 1..Len(extractor.s3) :
        i # j => extractor.s3[i].Key # extractor.s3[j].Key

\* C18: an extractor never holds more lines of an open file than its limit and one.
C18_BufferBounded == Len(extractor.current_content) <= LineLimit + 1

\* C19: an extractor holds buffered lines only while it has a current file, and has a
\* current file only while it has a current section.
C19_BufferNeedsFileNeedsSection ==
    /\ extractor.current_content # <<>> => extractor.current_file # None
    /\ extractor.current_file # None => extractor.current_section # None

C19_Witness ==
    /\ extractor.current_content # <<>>
    /\ extractor.current_file # None
    /\ extractor.current_section # None
    /\ extractor.files_created # <<>>

\* the extractor after one more line, and after the end of the stream
AfterLine(line) ==
    IF impl = "analysis" THEN process_line(extractor, line)
    ELSE cse_process_line(extractor, line)

AfterEnd ==
    IF impl = "analysis" THEN finalize_processing(extractor) ELSE cse_finish(extractor)

\* the artifacts q emitted that the extractor has not emitted yet
NewArtifacts(q) ==
    SubSeq(q.files_created, Len(extractor.files_created) + 1, Len(q.files_created))

TaggedWithCurrentSection(q) ==
    \A i \in 1..Len(NewArtifacts(q)) :
        NewArtifacts(q)[i].section = extractor.current_section

\* C20: every artifact carries one of the fixed section identifiers, and an artifact
\* flushed by a line, a section header included, or by the end of the stream carries
\* the section that was current before that line: the section its lines were buffered
\* in, since a section header empties the buffer.
C20_ArtifactSection ==
    /\ \A i \in 1..Len(extractor.files_created) :
          extractor.files_created[i].section \in SectionIds
    /\ \A line \in LineKinds \cup ContentKinds : TaggedWithCurrentSection(AfterLine(line))
    /\ pc = "streaming" => TaggedWithCurrentSection(AfterEnd)

\* a section header has flushed the open file of the section before it
C20_Witness ==
    /\ extractor.files_created # <<>>
    /\ extractor.current_section \in SectionIds
    /\ extractor.files_created[Len(extractor.files_created)].section
          \in SectionIds \ {extractor.current_section}
    /\ extractor.current_content = <<>>

\* the lines of an object put to the sink
BodyLines(i) == split_lines(extractor.s3[i].Body)

\* C21: every object put to the sink has at least the minimum size, holds no fence
\* line, neither starts nor ends with a blank line, and is left as it is by cleaning
\* it once more.
C21_ArtifactIsClean ==
    \A i \in 1..Len(extractor.s3) :
        /\ StrLen(extractor.s3[i].Body) >= MinSize
        /\ NoFences(BodyLines(i)) = BodyLines(i)
        /\ strip(BodyLines(i)[1]) # <<>>
        /\ strip(BodyLines(i)[Len(BodyLines(i))]) # <<>>
        /\ clean_file_content(extractor.s3[i].Body) = extractor.s3[i].Body

\* an object was put whose buffered lines began with a fence line, which cleaning took
\* out
C21_Witness ==
    /\ Done
    /\ IsFileStream
    /\ FileContent # <<>>
    /\ NoFences(<<FileContent[1]>>) = <<>>
    /\ Len(extractor.s3) = 1
    /\ BodyLines(1) = Tail(FileContent)

\* the state of the summary's state machine an extractor is in
Abs(p) ==
    IF p.current_section = None THEN "Idle"
    ELSE IF p.current_file = None THEN "InSection" ELSE "InFile"

\* a line that is no header leaves the state as it is, or ends the open file with a
\* flush; q is the extractor after the line
SelfLoopOrCompletion(q) ==
    \/ Abs(q) = Abs(extractor)
    \/ /\ Abs(extractor) = "InFile"
       /\ Abs(q) = "InSection"
       /\ NewArtifacts(q) # <<>>

\* a file header opens a file when there is a section, and is passed over when not
FileHeaderStep(q) ==
    IF Abs(extractor) = "Idle" THEN Abs(q) = "Idle" ELSE Abs(q) = "InFile"

\* C22 as stated: every line is a step of the summary's state machine: a section header
\* leads to InSection, a file header in a section to InFile, any other line leaves the
\* state or leads from InFile to InSection with a flush, and no line leads to Idle.
C22_Original ==
    \A line \in LineKinds \cup ContentKinds :
        LET q == AfterLine(line) IN
        /\ IF IsSectionHeader(line) THEN Abs(q) = "InSection"
           ELSE IF IsFileHeader(line) THEN FileHeaderStep(q)
           ELSE SelfLoopOrCompletion(q)
        /\ Abs(q) = "Idle" => Abs(extractor) = "Idle"

\* C22: as stated, except that the header of a documentation section leads to InFile,
\* the section's canonical file being opened with it, and that in the chunk processor a
\* line that is no header leads from InSection to InFile when the section is a
\* documentation section.
C22_StateMachine ==
    \A line \in LineKinds \cup ContentKinds :
        LET q == AfterLine(line) IN
        /\ IF IsSectionHeader(line)
           THEN Abs(q) = IF detect_section(strip(line)) \in documentation_sections
                         THEN "InFile" ELSE "InSection"
           ELSE IF IsFileHeader(line) THEN FileHeaderStep(q)
           ELSE \/ SelfLoopOrCompletion(q)
                \/ /\ impl = "chunk"
                   /\ extractor.current_section \in documentation_sections
                   /\ Abs(extractor) = "InSection"
                   /\ Abs(q) = "InFile"
        /\ Abs(q) = "Idle" => Abs(extractor) = "Idle"

\* the header of a documentation section has just opened the section's file
C22_Witness ==
    /\ extractor.current_section \in documentation_sections
    /\ Abs(extractor) = "InFile"
    /\ extractor.current_content = <<>>
    /\ extractor.files_created # <<>>

\* the folder the sink keeps the files of a section in
Folder(section) ==
    CASE section \in {"README", "REASONING", "ARCHITECTURE"} -> "documentation"
      [] section = "S3" -> "s3"
      [] section = "IAM_ROLES" -> "iam-roles"
      [] OTHER -> "none"

\* the file names the headers of the text give, and the names the extractor gives the
\* files of the documentation sections
HeaderNames ==
    {IF impl = "analysis" THEN detect_file(strip(Lines[k]))
     ELSE cse_detect_file(strip(Lines[k])) :
        k \in {l \in 1..Len(Lines) : IsFileHeader(Lines[l])}}

CanonicalNames ==
    {IF impl = "analysis" THEN doc_filename(section)
     ELSE cse_doc_filename(section, extractor.chunk_index) :
        section \in {"README", "REASONING", "ARCHITECTURE"}}

\* name with the chunk identifier before its extension
WithChunkIdentifier(name) ==
    LET identifier == <<"_chunk", ToString(extractor.chunk_index)>>
        dots == {j \in 1..Len(name) : name[j] \in Extensions}
    IN IF dots = {} THEN name \o identifier
       ELSE LET j == CHOOSE k \in dots : \A l \in dots : l <= k IN
            SubSeq(name, 1, j - 1) \o identifier \o SubSeq(name, j, Len(name))

\* every recorded artifact was put to prefix/folder/name for one of the names
PutUnder(names) ==
    /\ Len(extractor.s3) = Len(extractor.files_created)
    /\ \A i \in 1..Len(extractor.files_created) :
          /\ extractor.files_created[i].s3_path = extractor.s3[i].Key
          /\ \E name \in names :
                extractor.s3[i].Key =
                    <<extractor.output_prefix,
                      Folder(extractor.files_created[i].section), name>>

\* C23 as stated: every recorded artifact was put to the path of the output prefix, the
\* folder of its section and its file name as the file header gave it, or the name of
\* the documentation section's file.
C23_Original == PutUnder(HeaderNames \cup CanonicalNames)

\* C23: every recorded artifact was put to the path of the output prefix, the folder of
\* its section and a file name: in StreamingFileExtractor the name the file header gave
\* or the name of the documentation section's file, in ChunkStreamingExtractor that
\* name with the chunk identifier before its extension.
C23_SinkPath ==
    PutUnder(IF impl = "analysis" THEN HeaderNames \cup CanonicalNames
             ELSE {WithChunkIdentifier(name) : name \in HeaderNames \cup CanonicalNames})

\* the chunk processor has put a file of a section whose identifier has an underscore
C23_Witness ==
    /\ impl = "chunk"
    /\ \E i \in 1..Len(extractor.files_created) :
          /\ extractor.files_created[i].section = "IAM_ROLES"
          /\ extractor.s3[i].Key[2] = "iam-roles"

\* the sink paths the extractor of chunk i has written
Keys(i) ==
    {instances[i].extractor.s3[k].Key : k \in 1..Len(instances[i].extractor.s3)}

\* two values that are None or a string are the same
SameOpt(x, y) == IF x = None \/ y = None THEN x = None /\ y = None ELSE x = y

\* two instances are in the same state
SameInstance(a, b) ==
    /\ a.pos = b.pos /\ a.pc = b.pc /\ a.text = b.text
    /\ a.extractor.buffer = b.extractor.buffer
    /\ SameOpt(a.extractor.current_section, b.extractor.current_section)
    /\ SameOpt(a.extractor.current_file, b.extractor.current_file)
    /\ a.extractor.current_content = b.extractor.current_content
    /\ a.extractor.files_created = b.extractor.files_created
    /\ a.extractor.s3 = b.extractor.s3

\* C24: the extractors of two chunks never write the same sink path, whatever the order
\* of their steps and whatever file names their completions hold, and a step of one
\* extractor leaves the other extractors as they are.
C24_ChunksDisjoint ==
    /\ [](\A i, j \in DOMAIN instances : i # j => Keys(i) \cap Keys(j) = {})
    /\ [][\A i \in DOMAIN instances :
             ~SameInstance(instances'[i], instances[i]) =>
                 \A j \in DOMAIN instances \ {i} :
                     SameInstance(instances'[j], instances[j])]_vars

\* chunk 2 has put a file named a.py, and chunk 1 a file named a_chunk2.py
C24_Witness ==
    /\ DOMAIN instances = 1..MaxInstances
    /\ \E k \in 1..Len(instances[1].extractor.files_created) :
          instances[1].extractor.files_created[k].original_filename
              = <<"a", "_chunk", "2", ".py">>
    /\ \E k \in 1..Len(instances[2].extractor.files_created) :
          instances[2].extractor.files_created[k].original_filename = <<"a", ".py">>

\* C31: no line that is a section header or a file header is among the buffered lines of
\* an extractor or among the lines of an object it has put.
C31_NoHeaderBuffered ==
    /\ \A k \in 1..Len(extractor.current_content) :
          ~IsHeader(extractor.current_content[k])
    /\ \A i \in 1..Len(extractor.s3) :
          \A k \in 1..Len(BodyLines(i)) : ~IsHeader(BodyLines(i)[k])

\* a file header came while a file of a documentation section was open with content,
\* and the extractor has put objects
C31_Witness ==
    /\ Done
    /\ Len(Lines) >= 3
    /\ Lines[1] = SecDoc
    /\ \E l \in 3..Len(Lines) : IsFileHeader(Lines[l])
    /\ Len(extractor.s3) >= 1

\* the extractor q is in the parse state of the extractor, and has emitted nothing more
SameParseState(q) ==
    /\ SameOpt(q.current_section, extractor.current_section)
    /\ SameOpt(q.current_file, extractor.current_file)
    /\ q.current_content = extractor.current_content
    /\ q.buffer = extractor.buffer
    /\ q.files_created = extractor.files_created
    /\ q.s3 = extractor.s3

\* C32: a line that is not a section header changes nothing and emits nothing when no
\* section is active, file header or not, and when the active section is an artifact
\* section without an open file and the line is not a file header.
C32_LineWithoutEffect ==
    \A line \in LineKinds \cup ContentKinds :
        LET q == AfterLine(line) IN
        /\ ~IsSectionHeader(line)
        /\ \/ extractor.current_section = None
           \/ /\ extractor.current_section \notin documentation_sections
              /\ extractor.current_file = None
              /\ ~IsFileHeader(line)
        => SameParseState(q)

\* a file header and a line of content have come and gone without a section
C32_Witness ==
    /\ Done
    /\ Len(Lines) >= 2
    /\ IsFileHeader(Lines[1])
    /\ Lines[2] = Long
    /\ extractor.current_section = None
    /\ extractor.current_file = None
    /\ extractor.s3 = <<>>

\* the stripped lines process_line hands to is_file_complete when it handles `line`: the
\* line itself when no branch has returned before the check, and none otherwise
inspected(p, line) ==
    LET line_stripped == strip(line) IN
    IF detect_section(line_stripped) # None THEN {}
    ELSE IF detect_file(line_stripped) # None /\ p.current_section # None THEN {}
    ELSE IF p.current_section # None /\ p.current_file # None THEN {line_stripped}
    ELSE {}

cse_inspected(p, line) ==
    LET line_stripped == strip(line) IN
    IF detect_section(line_stripped) # None THEN {}
    ELSE IF cse_detect_file(line_stripped) # None /\ p.current_section # None THEN {}
    ELSE IF p.current_section = None THEN {}
    ELSE IF p.current_section \in documentation_sections \/ p.current_file # None
    THEN {line_stripped}
    ELSE {}

Inspected(line) ==
    IF impl = "analysis" THEN inspected(extractor, line) ELSE cse_inspected(extractor, line)

\* "next file or section header" of is_file_complete
next_header(line) ==
    \/ IF impl = "analysis" THEN detect_file(line) # None ELSE cse_detect_file(line) # None
    \/ detect_section(line) # None

\* C33: the line is_file_complete inspects is never a section header or a file header, and
\* in the analysis extractor a line that is no header never flushes the open file of a
\* documentation section.
C33_CheckNeverSeesHeader ==
    \A line \in LineKinds \cup ContentKinds :
        /\ \A l \in Inspected(line) : ~next_header(l)
        /\ /\ impl = "analysis"
           /\ extractor.current_section \in documentation_sections
           /\ extractor.current_file # None
           /\ ~IsHeader(line)
           => LET q == AfterLine(line) IN
              /\ q.s3 = extractor.s3
              /\ SameOpt(q.current_file, extractor.current_file)
              /\ q.current_content = Append(extractor.current_content, line)

\* the file of a documentation section is open, and still open after an empty line and
\* lines of content came in the analysis extractor
C33_Witness ==
    /\ impl = "analysis"
    /\ extractor.current_section \in documentation_sections
    /\ extractor.current_file # None
    /\ Len(extractor.current_content) >= 2
    /\ \E k \in 1..Len(extractor.current_content) : strip(extractor.current_content[k]) = <<>>
    /\ extractor.s3 = <<>>

\* the number of lines of ls, from the from-th on, that are not blank
NonBlank(ls, from) == Cardinality({k \in from..Len(ls) : strip(ls[k]) # <<>>})

RECURSIVE NonBlankPut(_)
\* the number of lines that are not blank in the first i objects put to the sink
NonBlankPut(i) ==
    IF i = 0 THEN 0 ELSE NonBlankPut(i - 1) + NonBlank(BodyLines(i), 1)

\* the text is the header of an artifact section, a file header, and lines of content
IsOneFileStream ==
    /\ Len(Lines) >= 3
    /\ IsSectionHeader(Lines[1])
    /\ detect_section(strip(Lines[1])) \notin documentation_sections
    /\ IsFileHeader(Lines[2])
    /\ \A k \in 3..Len(Lines) : ~IsHeader(Lines[k])

\* C34: when the stream of one explicitly opened file has ended, every line of the file
\* that is not blank is a line of an emitted artifact, the lines after a flush by the
\* line limit included.
C34_NoLineLostAfterFlush ==
    (Done /\ IsOneFileStream /\ extractor.s3 # <<>>)
    => NonBlankPut(Len(extractor.s3)) = NonBlank(Lines, 3)

\* what process_with_streaming_extraction returns when the source yields the whole
\* text as one fragment
WholeTextResult ==
    IF text # <<>> /\ startswith(text, <<"Error:">>)
    THEN [status |-> "error", error |-> text]
    ELSE success_result(parse_whole("analysis", text))

\* C35: when the source has not yielded the error sentinel, the driver of the analysis
\* lambda returns what it returns for the whole text in one fragment: the same status,
\* and on success the same artifacts.
C35_OutcomeIndependentOfFragments ==
    (Done /\ impl = "analysis" /\ ~sentinel_yielded)
    => /\ result.status = WholeTextResult.status
       /\ result.status = "success" => result.all_files = WholeTextResult.all_files

-----------------------------------------------------------------------------
(* The splitters *)

SplitDone == split_pc = "done"

\* C11: with a budget of at least 1, every chunk of the analysis lambda's create_chunks
\* has at most max_chunk_size characters, and no cut lies past its target offset.
C11_ChunkWithinBudget ==
    (splitter = "analysis" /\ max_size >= 1)
    => /\ \A i \in 1..Len(chunks) : StrLen(chunks[i]) <= max_size
       /\ last_cut.end <= last_cut.target

\* a hard split: a finished run with several chunks, one of them of the full size
C11_Witness ==
    /\ splitter = "analysis"
    /\ SplitDone
    /\ max_size >= 1
    /\ Len(chunks) >= 2
    /\ \E i \in 1..Len(chunks) : StrLen(chunks[i]) = max_size

\* C12: every chunk of the chunking lambda's create_chunks, prompt included, has an
\* estimated token count of at most max_tokens_per_chunk.
C12_TokensWithinBudget ==
    (splitter = "chunking" /\ SplitDone)
    => \A i \in 1..Len(chunks) : estimate_token_count(chunks[i]) <= max_size

\* the text the chunks are cut from, and the chunks without the prompt put before them
SplitInput == IF splitter = "chunking" THEN documentation_of(full_text) ELSE full_text

Bodies ==
    IF splitter = "chunking"
    THEN [i \in 1..Len(chunks) |->
            SubSeq(chunks[i], Len(prompt_part_of(full_text)) + 3, Len(chunks[i]))]
    ELSE chunks

AllWhitespace(t) == \A i \in 1..Len(t) : t[i] \in Whitespace

NonWhitespace(t) == SelectSeq(t, LAMBDA c : c \notin Whitespace)

\* t is the chunks cs in their order, with nothing but whitespace before, between and
\* after them
RECURSIVE Covers(_, _)
Covers(t, cs) ==
    IF cs = <<>> THEN AllWhitespace(t)
    ELSE \E k \in 0..Len(t) :
            /\ AllWhitespace(SubSeq(t, 1, k))
            /\ k + Len(Head(cs)) <= Len(t)
            /\ SubSeq(t, k + 1, k + Len(Head(cs))) = Head(cs)
            /\ Covers(SubSeq(t, k + Len(Head(cs)) + 1, Len(t)), Tail(cs))

\* C13 as stated: for both splitters the chunks, in their order and without the prompt,
\* are the input with only whitespace at the cuts left out.
C13_Original == SplitDone => Covers(SplitInput, Bodies)

\* C13: the chunks of the analysis lambda's create_chunks are the input with only
\* whitespace at the cuts left out; the chunks of the chunking lambda's create_chunks,
\* without the prompt, hold the non-whitespace characters of the input, each once and in
\* the input's order, while whitespace may differ inside a chunk as well.
C13_CharactersPreserved ==
    SplitDone =>
        IF splitter = "analysis" THEN Covers(SplitInput, Bodies)
        ELSE NonWhitespace(Flatten(Bodies)) = NonWhitespace(SplitInput)

C13_Witness ==
    /\ SplitDone
    /\ splitter = "chunking"
    /\ Len(chunks) >= 2
    /\ ~Covers(SplitInput, Bodies)

\* C14: splitting the empty string returns no chunk, and no chunk a splitter returns is
\* empty after trimming.
C14_NoEmptyChunk ==
    SplitDone =>
        /\ full_text = <<>> => chunks = <<>>
        /\ \A i \in 1..Len(chunks) : strip(chunks[i]) # <<>>

Called == split_pc = "start" /\ splitter = "analysis"

\* C15 as stated: the analysis lambda's create_chunks returns for every text and every
\* budget.
C15_Original == Called ~> SplitDone

\* C15: for every text and every budget of at least 1 the analysis lambda's
\* create_chunks returns, and every cut it makes ends after the offset it started from.
C15_Terminates ==
    /\ [](splitter = "analysis" /\ max_size >= 1 /\ last_cut # NoCut
            => last_cut.end > last_cut.start)
    /\ (Called /\ max_size >= 1) ~> SplitDone

C15_Witness ==
    /\ splitter = "analysis" /\ max_size >= 1
    /\ SplitDone
    /\ last_cut.start > 0
    /\ last_cut.end = Len(full_text)

\* the offsets after the start offset of the last cut at which boundary b lies, whole,
\* before the target offset; FromStart counts the start offset as well
OccurrencesFrom(b, first) ==
    {o \in first..(last_cut.target - Len(b)) : Slice(full_text, o, o + Len(b)) = b}

Occurrences(b) == OccurrencesFrom(b, last_cut.start + 1)

OccurrencesFromStart(b) == OccurrencesFrom(b, last_cut.start)

Max(S) == CHOOSE m \in S : \A o \in S : o <= m

BoundaryTypes == <<(<<"NL", "NL">>), (<<".", "SP">>), (<<"NL">>), (<<"SP">>)>>

\* the last cut, when its target is before the end of the text, lies right after the
\* last of occ(b) for the first b of the list with any, and at the target when none has
CutAfterLastOfFirst(occ(_)) ==
    (splitter = "analysis" /\ last_cut # NoCut /\ last_cut.target < Len(full_text))
    => IF \E k \in 1..4 : occ(BoundaryTypes[k]) # {}
       THEN LET k == CHOOSE k \in 1..4 :
                        /\ occ(BoundaryTypes[k]) # {}
                        /\ \A h \in 1..(k - 1) : occ(BoundaryTypes[h]) = {}
            IN last_cut.end = Max(occ(BoundaryTypes[k])) + Len(BoundaryTypes[k])
       ELSE last_cut.end = last_cut.target

\* C16 as stated: a cut before the end of the text lies right after the last occurrence,
\* between the start offset and the target offset, of the first of double newline,
\* full stop and space, newline, space that occurs there, and at the target when none
\* occurs there.
C16_Original == CutAfterLastOfFirst(OccurrencesFromStart)

\* C16: a cut before the end of the text lies right after the last occurrence that
\* starts after the start offset and ends by the target offset, of the first of double
\* newline, full stop and space, newline, space that has such an occurrence, and at the
\* target when none has; an occurrence at the start offset itself does not count.
C16_CutAtNaturalBoundary == CutAfterLastOfFirst(Occurrences)

C16_Witness ==
    /\ splitter = "analysis"
    /\ last_cut # NoCut /\ last_cut.target < Len(full_text)
    /\ \E j, k \in 1..4 :
          /\ j < k
          /\ Occurrences(BoundaryTypes[j]) # {}
          /\ Occurrences(BoundaryTypes[k]) # {}
          /\ last_cut.end = Max(Occurrences(BoundaryTypes[j])) + Len(BoundaryTypes[j])
          /\ last_cut.end < Max(Occurrences(BoundaryTypes[k])) + Len(BoundaryTypes[k])

-----------------------------------------------------------------------------
(* SpecProc: process_chunks of the analysis lambda.  The chunks are numbered from 1;   *)
(* the completion service answers a call with a text, with a text that begins with     *)
(* "Error:", with a response without content, or with an exception.                    *)

MaxProcChunks == 3

ConverseOutcomes == {"text", "error_text", "no_content", "exception"}

\* call_llm_converse: the text of the response, or a string that begins with "Error:"
call_llm_converse(outcome) ==
    CASE outcome = "text" -> "text"
      [] outcome = "error_text" -> "Error: in the text"
      [] outcome = "no_content" -> "Error: No valid response from Bedrock"
      [] outcome = "exception" -> "Error: Error calling Bedrock"

\* result.startswith("Error:")
starts_with_error(r) == r # "text"

chunk_result_success(i, r) == [status |-> "success", chunk |-> i]

\* the entry process_chunks appends for chunk i
chunk_result(i, r) ==
    IF starts_with_error(r) THEN [status |-> "error", chunk |-> i]
    ELSE [status |-> "success", chunk |-> i]

\* aggregate_chunk_results: the chunks whose content is merged, the failed ones skipped
RECURSIVE merged_chunks(_)
merged_chunks(rs) ==
    IF rs = <<>> THEN <<>>
    ELSE IF Head(rs).status = "error" THEN merged_chunks(Tail(rs))
         ELSE <<Head(rs).chunk>> \o merged_chunks(Tail(rs))

InitProc ==
    /\ ProcIdle
    /\ IdleExceptProc

\* process_chunks(chunks)
ProcCall ==
    /\ proc_pc = "idle"
    /\ \E n \in 0..MaxProcChunks : proc_chunks' = n
    /\ proc_i' = 1
    /\ proc_pc' = "loop"
    /\ UNCHANGED <<llm_result, proc_results, converse_calls, aggregate_input,
                   proc_aggregated, exceptProc>>

\* result = call_llm_converse(chunk, wait=(i > 0)); the wait only delays the call
ProcConverse ==
    /\ proc_pc = "loop"
    /\ proc_i <= proc_chunks
    /\ \E outcome \in ConverseOutcomes :
          /\ llm_result' = call_llm_converse(outcome)
          /\ converse_calls' = Append(converse_calls,
                                      [chunk |-> proc_i, outcome |-> outcome])
    /\ proc_pc' = "called"
    /\ UNCHANGED <<proc_chunks, proc_i, proc_results, aggregate_input, proc_aggregated,
                   exceptProc>>

\* chunk_results.append(...), and the loop goes to the next chunk
ProcAppend ==
    /\ proc_pc = "called"
    /\ proc_results' = Append(proc_results, chunk_result(proc_i, llm_result))
    /\ proc_i' = proc_i + 1
    /\ llm_result' = None
    /\ proc_pc' = "loop"
    /\ UNCHANGED <<proc_chunks, converse_calls, aggregate_input, proc_aggregated,
                   exceptProc>>

\* return aggregate_chunk_results(chunk_results)
ProcAggregate ==
    /\ proc_pc = "loop"
    /\ proc_i > proc_chunks
    /\ aggregate_input' = proc_results
    /\ proc_aggregated' = merged_chunks(proc_results)
    /\ proc_pc' = "returned"
    /\ UNCHANGED <<proc_chunks, proc_i, llm_result, proc_results, converse_calls,
                   exceptProc>>

NextProc == ProcCall \/ ProcConverse \/ ProcAppend \/ ProcAggregate

SpecProc == InitProc /\ [][NextProc]_vars

\* C25: the completion service is called for the chunks in their order, one call for a
\* chunk; a call that returned an error has left a failed result and no second call, and
\* the loop has gone on to the next chunk; when the aggregation runs, every chunk has had
\* its one call and has its one result, and the aggregation is of these results.
C25_OneCallPerChunkThenAggregate ==
    /\ \A k \in 1..Len(converse_calls) : converse_calls[k].chunk = k
    /\ Len(converse_calls) <= proc_chunks
    /\ Len(proc_results) = IF proc_pc = "called" THEN Len(converse_calls) - 1
                           ELSE Len(converse_calls)
    /\ \A k \in 1..Len(proc_results) :
          /\ proc_results[k].chunk = k
          /\ converse_calls[k].outcome # "text" => proc_results[k].status = "error"
          /\ converse_calls[k].outcome = "text" => proc_results[k].status = "success"
    /\ proc_pc = "loop" /\ proc_i <= proc_chunks => proc_i = Len(converse_calls) + 1
    /\ proc_pc # "returned" => aggregate_input = <<>> /\ proc_aggregated = <<>>
    /\ proc_pc = "returned" =>
           /\ Len(converse_calls) = proc_chunks
           /\ Len(proc_results) = proc_chunks
           /\ aggregate_input = proc_results
           /\ \A k \in 1..proc_chunks :
                 (\E j \in 1..Len(proc_aggregated) : proc_aggregated[j] = k)
                     <=> proc_results[k].status = "success"

\* the call for chunk 1 failed, chunks 2 and 3 were still called, and the aggregation ran
C25_Witness ==
    /\ proc_pc = "returned"
    /\ proc_chunks = 3
    /\ proc_results[1].status = "error"
    /\ proc_results[3].status = "success"
    /\ converse_calls[1].outcome = "exception"
    /\ Len(converse_calls) = 3
    /\ proc_aggregated = <<2, 3>>

-----------------------------------------------------------------------------
(* SpecReport: the lambda_handler of the chunking lambda and the lambda_handler of the *)
(* aggregate lambda, with a job table that may refuse any update.  The event of the    *)
(* chunking handler says whether its required parameters are there, whether the prompt *)
(* can be read and whether it is over the chunking threshold; the event of the         *)
(* aggregate handler is the list of its file results and whether the combined text can *)
(* be written.  The files of a model fit into MAX_COMBINED_CHARS.                      *)

MaxFiles == 2

\* a file result: processed, failed, processed but not readable from the bucket, or
\* without a key
FileResults == {"ok", "error", "unreadable", "no_key"}

ChunkingEvents ==
    [params : BOOLEAN, readable : BOOLEAN, requires_chunking : BOOLEAN]

AggregateEvents ==
    [file_results : UNION {[1..n -> FileResults] : n \in 0..MaxFiles}, put_ok : BOOLEAN]

CountOf(kind, rs) == Cardinality({k \in 1..Len(rs) : rs[k] = kind})

\* successful_files = [result for result in file_results if result.get('status') != 'error']
successful_files(rs) == SelectSeq(rs, LAMBDA r : r # "error")

\* update_job_status of the chunking lambda: the exception of the table is caught
update_job_status_raised_chunking(ok) == FALSE

\* update_job_status of the aggregate lambda: the exception of the table is raised again
update_job_status_raised_aggregate(ok) == ~ok

InitReport ==
    /\ RepIdle
    /\ IdleExceptRep

\* the table takes the update or refuses it
Report(status, ok) ==
    /\ job_table' = IF ok THEN Append(job_table, status) ELSE job_table
    /\ failed_reports' = IF ok THEN failed_reports ELSE failed_reports + 1

NoReport == UNCHANGED <<job_table, failed_reports>>

\* lambda_handler of the chunking lambda is invoked
ChunkingHandlerCall ==
    /\ rep_pc = "idle"
    /\ rep_handler' = "chunking"
    /\ \E e \in ChunkingEvents : rep_event' = e
    /\ rep_pc' = "validate"
    /\ NoReport
    /\ UNCHANGED <<rep_result, exceptRep>>

\* if not all([job_id, bucket_name, full_prompt_key]): report ERROR and return
ChunkingHandlerMissing ==
    /\ rep_handler = "chunking" /\ rep_pc = "validate"
    /\ ~rep_event.params
    /\ \E ok \in BOOLEAN :
          /\ Report("ERROR", ok)
          /\ IF update_job_status_raised_chunking(ok)
             THEN rep_pc' = "except" /\ UNCHANGED rep_result
             ELSE /\ rep_pc' = "returned"
                  /\ rep_result' = [status |-> "error", error |-> "Missing required parameters"]
    /\ UNCHANGED <<rep_handler, rep_event, exceptRep>>

\* get_object, estimate_token_count, and the return when no chunking is needed
ChunkingHandlerRead ==
    /\ rep_handler = "chunking" /\ rep_pc = "validate"
    /\ rep_event.params
    /\ IF ~rep_event.readable THEN rep_pc' = "except" /\ UNCHANGED rep_result
       ELSE IF rep_event.requires_chunking THEN rep_pc' = "chunking" /\ UNCHANGED rep_result
       ELSE /\ rep_pc' = "returned"
            /\ rep_result' = [status |-> "ok", requires_chunking |-> FALSE]
    /\ NoReport
    /\ UNCHANGED <<rep_handler, rep_event, exceptRep>>

\* report CHUNKING, create the chunks, put them and return
ChunkingHandlerChunk ==
    /\ rep_handler = "chunking" /\ rep_pc = "chunking"
    /\ \E ok \in BOOLEAN :
          /\ Report("CHUNKING", ok)
          /\ IF update_job_status_raised_chunking(ok)
             THEN rep_pc' = "except" /\ UNCHANGED rep_result
             ELSE /\ rep_pc' = "returned"
                  /\ rep_result' = [status |-> "ok", requires_chunking |-> TRUE]
    /\ UNCHANGED <<rep_handler, rep_event, exceptRep>>

\* except Exception: report ERROR and return the error
ChunkingHandlerExcept ==
    /\ rep_handler = "chunking" /\ rep_pc = "except"
    /\ \E ok \in BOOLEAN : Report("ERROR", ok)
    /\ rep_pc' = "returned"
    /\ rep_result' = [status |-> "error", error |-> "exception"]
    /\ UNCHANGED <<rep_handler, rep_event, exceptRep>>

\* lambda_handler of the aggregate lambda is invoked
AggregateHandlerCall ==
    /\ rep_pc = "idle"
    /\ rep_handler' = "aggregate"
    /\ \E e \in AggregateEvents : rep_event' = e
    /\ rep_pc' = "aggregating"
    /\ NoReport
    /\ UNCHANGED <<rep_result, exceptRep>>

\* where the handler goes after the report of AGGREGATING: the files are combined and
\* the combined text is put to the bucket
after_aggregating(e) ==
    IF successful_files(e.file_results) = <<>> THEN "no_files"
    ELSE IF CountOf("ok", e.file_results) = 0 THEN "nothing_combined"
    ELSE IF e.put_ok THEN "aggregated"
    ELSE "except"

\* update_job_status(job_id, 'AGGREGATING', ...), then the files are combined
AggregateHandlerAggregating ==
    /\ rep_handler = "aggregate" /\ rep_pc = "aggregating"
    /\ \E ok \in BOOLEAN :
          /\ Report("AGGREGATING", ok)
          /\ rep_pc' = IF update_job_status_raised_aggregate(ok) THEN "except"
                       ELSE after_aggregating(rep_event)
    /\ UNCHANGED <<rep_handler, rep_event, rep_result, exceptRep>>

\* update_job_status(job_id, 'ERROR', error_msg) and the return of the error
AggregateHandlerError ==
    /\ rep_handler = "aggregate" /\ rep_pc \in {"no_files", "nothing_combined"}
    /\ \E ok \in BOOLEAN :
          /\ Report("ERROR", ok)
          /\ IF update_job_status_raised_aggregate(ok)
             THEN rep_pc' = "except" /\ UNCHANGED rep_result
             ELSE /\ rep_pc' = "returned"
                  /\ rep_result' =
                        [status |-> "error",
                         error |-> IF rep_pc = "no_files"
                                   THEN "No files were successfully processed"
                                   ELSE "Failed to aggregate any file content"]
    /\ UNCHANGED <<rep_handler, rep_event, exceptRep>>

\* update_job_status(job_id, 'AGGREGATED', status_message) and the return of the success
AggregateHandlerAggregated ==
    /\ rep_handler = "aggregate" /\ rep_pc = "aggregated"
    /\ \E ok \in BOOLEAN :
          /\ Report("AGGREGATED", ok)
          /\ IF update_job_status_raised_aggregate(ok)
             THEN rep_pc' = "except" /\ UNCHANGED rep_result
             ELSE /\ rep_pc' = "returned"
                  /\ rep_result' =
                        [status |-> "success",
                         file_count |-> CountOf("ok", rep_event.file_results),
                         error_count |-> CountOf("unreadable", rep_event.file_results)]
    /\ UNCHANGED <<rep_handler, rep_event, exceptRep>>

\* except Exception: the report of ERROR is tried, its exception is caught, and the
\* error is returned
AggregateHandlerExcept ==
    /\ rep_handler = "aggregate" /\ rep_pc = "except"
    /\ \E ok \in BOOLEAN : Report("ERROR", ok)
    /\ rep_pc' = "returned"
    /\ rep_result' = [status |-> "error", error |-> "Aggregation failed"]
    /\ UNCHANGED <<rep_handler, rep_event, exceptRep>>

NextReport ==
    \/ ChunkingHandlerCall
    \/ ChunkingHandlerMissing
    \/ ChunkingHandlerRead
    \/ ChunkingHandlerChunk
    \/ ChunkingHandlerExcept
    \/ AggregateHandlerCall
    \/ AggregateHandlerAggregating
    \/ AggregateHandlerError
    \/ AggregateHandlerAggregated
    \/ AggregateHandlerExcept

SpecReport == InitReport /\ [][NextReport]_vars

\* what a handler returns for an event when the job table takes every update
ResultWithWorkingTable(h, e) ==
    IF h = "chunking"
    THEN IF ~e.params THEN [status |-> "error", error |-> "Missing required parameters"]
         ELSE IF ~e.readable THEN [status |-> "error", error |-> "exception"]
         ELSE [status |-> "ok", requires_chunking |-> e.requires_chunking]
    ELSE IF successful_files(e.file_results) = <<>>
         THEN [status |-> "error", error |-> "No files were successfully processed"]
         ELSE IF CountOf("ok", e.file_results) = 0
         THEN [status |-> "error", error |-> "Failed to aggregate any file content"]
         ELSE IF ~e.put_ok THEN [status |-> "error", error |-> "Aggregation failed"]
         ELSE [status |-> "success",
               file_count |-> CountOf("ok", e.file_results),
               error_count |-> CountOf("unreadable", e.file_results)]

\* C26: whichever reports the job table refuses, a handler that has returned has
\* returned what it returns for its event when the table takes every report.
C26_ReportFailureHarmless ==
    rep_pc = "returned" => rep_result = ResultWithWorkingTable(rep_handler, rep_event)

-----------------------------------------------------------------------------
(* SpecTwice: a splitter is invoked, returns, and is invoked again with the same text  *)
(* and the same budget argument.  The variables of the first invocation are as it left *)
(* them, and the environment may have changed in between.  The chunking lambda's       *)
(* create_chunks takes its budget from MAX_TOKENS_PER_CHUNK when the argument is None. *)

\* max_tokens_per_chunk: int = None
NoBudget == -1

max_tokens_from_environ(arg, env) == env

\* if max_tokens_per_chunk is None:
\*     max_tokens_per_chunk = int(os.environ.get('MAX_TOKENS_PER_CHUNK', 15000))
max_tokens_or_environ(arg, env) == IF arg = NoBudget THEN env ELSE arg

InitTwice ==
    /\ TwiceIdle
    /\ IdleExceptTwice

\* the first invocation of the analysis lambda's create_chunks
FirstSplitCall ==
    /\ invocation = 0
    /\ splitter' = "analysis"
    /\ full_text' \in SplitTexts
    /\ \E b \in 1..MaxBudget : budget_arg' = b /\ max_size' = b
    /\ split_pc' = "start"
    /\ invocation' = 1
    /\ UNCHANGED <<current_pos, chunks, last_cut, environ_max_tokens, first_environ,
                   first_chunks>>
    /\ UNCHANGED <<streamVars, aggVars, besidesTwice>>

\* the first invocation of the chunking lambda's create_chunks
FirstChunkingCall ==
    /\ invocation = 0
    /\ splitter' = "chunking"
    /\ full_text' \in ChunkingTexts
    /\ \E b \in ChunkingBudgets \cup {NoBudget}, env \in ChunkingBudgets :
          /\ budget_arg' = b
          /\ environ_max_tokens' = env
          /\ first_environ' = env
          /\ max_size' = max_tokens_or_environ(b, env)
    /\ split_pc' = "start"
    /\ invocation' = 1
    /\ UNCHANGED <<current_pos, chunks, last_cut, first_chunks>>
    /\ UNCHANGED <<streamVars, aggVars, besidesTwice>>

\* the second invocation, with the text and the budget argument of the first
SecondCall ==
    /\ invocation = 1
    /\ split_pc = "done"
    /\ first_chunks' = chunks
    /\ \E env \in ChunkingBudgets :
          /\ environ_max_tokens' = IF splitter = "chunking" THEN env ELSE environ_max_tokens
          /\ max_size' = IF splitter = "chunking" THEN max_tokens_or_environ(budget_arg, env)
                         ELSE budget_arg
    /\ split_pc' = "start"
    /\ invocation' = 2
    /\ UNCHANGED <<splitter, full_text, current_pos, chunks, last_cut, budget_arg,
                   first_environ>>
    /\ UNCHANGED <<streamVars, aggVars, besidesTwice>>

NextTwice ==
    \/ FirstSplitCall \/ FirstChunkingCall \/ SecondCall
    \/ SplitWhole \/ SplitEnterLoop \/ SplitStep \/ SplitReturn \/ CreateChunks

SpecTwice == InitTwice /\ [][NextTwice]_vars

-----------------------------------------------------------------------------
(* SpecValidate: lambda_handler of the validation lambda.  An event from outside       *)
(* carries no fix_attempt; the handler puts the counter into the event before it calls *)
(* itself.  In every round the fetch of the template or a validator may raise, the     *)
(* syntax validation or the change-set validation may fail, or the template passes;    *)
(* the call of the template fix and the upload of the fixed template may raise.        *)
(* job_statuses are the statuses the handler passed to update_job_status, which        *)
(* catches the exceptions of the table.  The error of a validator is the pair of its   *)
(* kind and the round in which it was reported.                                        *)

MaxFix == 2

\* event.get('max_fix_attempts', 5)
DefaultMaxFixAttempts == 5

\* the event has no max_fix_attempts
NoMaxFix == -1

ValidationEvents ==
    [params : BOOLEAN, max_fix_attempts : (0..MaxFix) \cup {NoMaxFix},
     perform_changeset_validation : BOOLEAN]

max_fix_attempts_of(e) ==
    IF e.max_fix_attempts = NoMaxFix THEN DefaultMaxFixAttempts ELSE e.max_fix_attempts

RoundOutcomes == {"fetch_raises", "validator_raises", "syntax_failed", "changeset_failed",
                  "passed"}

FixOutcomes == {"fixed", "fix_raises", "upload_raises"}

may_fix_never(attempt, max) == FALSE

may_fix_always(attempt, max) == TRUE

\* if fix_attempt < max_fix_attempts
may_fix(attempt, max) == attempt < max

\* n times the status s
Repeat(s, n) == [k \in 1..n |-> s]

InitValidate ==
    /\ ValIdle
    /\ IdleExceptVal

\* the handler is invoked; an event without job_id or s3_location is answered with 400
ValidateCall ==
    /\ val_pc = "idle"
    /\ \E e \in ValidationEvents :
          /\ val_event' = e
          /\ IF e.params
             THEN val_pc' = "round" /\ UNCHANGED val_result
             ELSE /\ val_pc' = "returned"
                  /\ val_result' = [validation_status |-> "none", statusCode |-> 400]
    /\ UNCHANGED <<fix_attempt, validation_errors, fetches, validations, fix_calls,
                   job_statuses, exceptVal>>

\* except Exception in every frame of the recursion: report VALIDATION_FAILED, raise
Raise ==
    /\ val_pc' = "raised"
    /\ val_result' = [validation_status |-> "none", raised |-> TRUE]

\* one round: report VALIDATING, fetch the template, validate its syntax and, if enabled,
\* with a change set; return when it passed or when no fix may be tried any more
ValidateRound ==
    /\ val_pc = "round"
    /\ \E o \in RoundOutcomes :
          /\ o = "changeset_failed" => val_event.perform_changeset_validation
          /\ fetches' = fetches + 1
          /\ validations' = IF o \in {"fetch_raises", "validator_raises"} THEN validations
                            ELSE Append(validations, o)
          /\ CASE o \in {"fetch_raises", "validator_raises"} ->
                    /\ Raise
                    /\ job_statuses' = job_statuses \o <<"VALIDATING">>
                                           \o Repeat("VALIDATION_FAILED", fix_attempt + 1)
                    /\ UNCHANGED validation_errors
               [] o = "passed" ->
                    /\ val_pc' = "returned"
                    /\ val_result' = [validation_status |-> "PASSED",
                                      fix_attempts |-> fix_attempt]
                    /\ job_statuses' = job_statuses \o <<"VALIDATING", "VALIDATED">>
                    /\ UNCHANGED validation_errors
               [] o \in {"syntax_failed", "changeset_failed"} ->
                    LET errors == <<o, Len(validations) + 1>> IN
                    IF may_fix(fix_attempt, max_fix_attempts_of(val_event))
                    THEN /\ val_pc' = "fix"
                         /\ validation_errors' = errors
                         /\ job_statuses' = job_statuses \o <<"VALIDATING", "FIXING">>
                         /\ UNCHANGED val_result
                    ELSE /\ val_pc' = "returned"
                         /\ val_result' = [validation_status |-> "FAILED",
                                           validation_errors |-> errors,
                                           fix_attempts |-> fix_attempt]
                         /\ job_statuses' =
                                job_statuses \o <<"VALIDATING", "VALIDATION_FAILED">>
                         /\ UNCHANGED validation_errors
    /\ UNCHANGED <<val_event, fix_attempt, fix_calls, exceptVal>>

\* call_llm_for_template_fix, upload_template_to_s3, event['fix_attempt'] = fix_attempt + 1
\* and return lambda_handler(event, context)
ValidateFix ==
    /\ val_pc = "fix"
    /\ fix_calls' = fix_calls + 1
    /\ \E o \in FixOutcomes :
          IF o = "fixed"
          THEN /\ fix_attempt' = fix_attempt + 1
               /\ val_pc' = "round"
               /\ UNCHANGED <<val_result, job_statuses>>
          ELSE /\ Raise
               /\ job_statuses' = job_statuses \o Repeat("VALIDATION_FAILED", fix_attempt + 1)
               /\ UNCHANGED fix_attempt
    /\ validation_errors' = <<>>
    /\ UNCHANGED <<val_event, fetches, validations, exceptVal>>

NextValidate == ValidateCall \/ ValidateRound \/ ValidateFix

SpecValidate == InitValidate /\ [][NextValidate]_vars

\* a handler that was called goes on until it returns or raises
SpecValidateFair == SpecValidate /\ WF_vars(ValidateRound \/ ValidateFix)

Last(s) == s[Len(s)]

\* some round of the handler has reported a failed validation
SomeValidationFailed ==
    \E k \in 1..Len(validations) : validations[k] \in {"syntax_failed", "changeset_failed"}

C29_BoundedFixLoop ==
    /\ [](val_pc # "idle" /\ val_event.params =>
             LET M == max_fix_attempts_of(val_event) IN
             /\ fix_calls <= M
             /\ Len(validations) <= M + 1
             /\ fetches <= M + 1
             /\ fix_attempt <= fix_calls
             /\ val_pc = "returned" =>
                   /\ val_result.validation_status \in {"PASSED", "FAILED"}
                   /\ val_result.fix_attempts = fix_calls
                   /\ val_result.fix_attempts <= M
                   /\ val_result.validation_status = "PASSED" =>
                          /\ validations # <<>>
                          /\ Last(validations) = "passed")
    /\ [][fix_attempt' >= fix_attempt]_vars
    /\ (val_pc \in {"round", "fix"} ~> val_pc \in {"returned", "raised"})

\* the template passed in the third round, after two fixes of two allowed
C29_Witness ==
    /\ val_pc = "returned"
    /\ val_event.max_fix_attempts = 2
    /\ fix_calls = 2
    /\ Len(validations) = 3
    /\ val_result.validation_status = "PASSED"
    /\ val_result.fix_attempts = 2

-----------------------------------------------------------------------------
(* SpecInitial: lambda_handler of the initial lambda of the cfn-generator.  An event   *)
(* is a direct invocation or one by a Bedrock agent, whose request body is a           *)
(* properties array, a dictionary, a JSON string, or a string that is not JSON.  A     *)
(* parameter is absent, well formed, of a bad format, or not a string.                 *)

MaxFileCount == 2

Invocations == {"direct", "agent_properties", "agent_dict", "agent_json", "agent_bad_json"}

BucketNames == {"absent", "valid", "bad_format", "not_a_string"}

Folders == {"absent", "relative", "leading_slash", "not_a_string"}

InitialEvents == [invocation : Invocations, bucket_name : BucketNames, s3_folder : Folders]

\* is_bedrock_agent = "actionGroup" in event
is_bedrock_agent(e) == e.invocation # "direct"

validate_input_parameters_accepting(params) == [raised |-> FALSE, is_valid |-> TRUE]

\* validate_input_parameters: re.match raises on a bucket name that is not a string,
\* and startswith on a folder that is not a string
validate_input_parameters(params) ==
    CASE params.bucket_name = "absent" -> [raised |-> FALSE, is_valid |-> FALSE]
      [] params.bucket_name = "not_a_string" -> [raised |-> TRUE, is_valid |-> FALSE]
      [] params.bucket_name = "bad_format" -> [raised |-> FALSE, is_valid |-> FALSE]
      [] params.s3_folder = "absent" -> [raised |-> FALSE, is_valid |-> FALSE]
      [] params.s3_folder = "not_a_string" -> [raised |-> TRUE, is_valid |-> FALSE]
      [] params.s3_folder = "leading_slash" -> [raised |-> FALSE, is_valid |-> FALSE]
      [] OTHER -> [raised |-> FALSE, is_valid |-> TRUE]

\* the response of the handler, in the format of the invocation
Response(code, status) ==
    [statusCode |-> code, status |-> status, agent |-> is_bedrock_agent(ini_event)]

Return(outcome, code, status) ==
    /\ ini_pc' = "returned"
    /\ ini_log' = Append(ini_log, outcome)
    /\ ini_response' = Response(code, status)

Proceed(outcome, to) ==
    /\ ini_pc' = to
    /\ ini_log' = Append(ini_log, outcome)
    /\ UNCHANGED ini_response

InitInitial ==
    /\ IniIdle
    /\ IdleExceptIni

\* the handler is invoked and takes the request body from the event
InitialCall ==
    /\ ini_pc = "idle"
    /\ \E e \in InitialEvents :
          /\ ini_event' = e
          /\ ini_log' = <<>>
          /\ IF e.invocation = "agent_bad_json"
             THEN /\ ini_pc' = "returned"
                  /\ ini_response' = [statusCode |-> 500, status |-> "error", agent |-> TRUE]
             ELSE ini_pc' = "validate" /\ UNCHANGED ini_response
    /\ UNCHANGED <<job_records, job_record_status, executions, exceptIni>>

\* is_valid, error_message = validate_input_parameters(request_body)
InitialValidate ==
    /\ ini_pc = "validate"
    /\ LET v == validate_input_parameters(ini_event) IN
       IF v.raised THEN Return("validation_raised", 500, "error")
       ELSE IF ~v.is_valid THEN Return("invalid", 400, "error")
       ELSE Proceed("valid", "bucket")
    /\ UNCHANGED <<ini_event, job_records, job_record_status, executions, exceptIni>>

\* bucket_exists, error_message = verify_s3_bucket_exists(bucket_name)
InitialVerifyBucket ==
    /\ ini_pc = "bucket"
    /\ \E bucket_exists \in BOOLEAN :
          IF bucket_exists THEN Proceed("bucket_exists", "folder")
          ELSE Return("no_bucket", 404, "error")
    /\ UNCHANGED <<ini_event, job_records, job_record_status, executions, exceptIni>>

\* folder_exists, error_message, file_count = verify_s3_folder_exists(bucket_name, s3_folder)
InitialVerifyFolder ==
    /\ ini_pc = "folder"
    /\ \E file_count \in 0..MaxFileCount :
          IF file_count > 0 THEN Proceed("folder_exists", "record")
          ELSE Return("no_folder", 404, "error")
    /\ UNCHANGED <<ini_event, job_records, job_record_status, executions, exceptIni>>

\* job_created = create_job_record(job_id, bucket_name, s3_folder)
InitialCreateRecord ==
    /\ ini_pc = "record"
    /\ \E job_created \in BOOLEAN :
          IF job_created
          THEN /\ Proceed("record_created", "workflow")
               /\ job_records' = job_records + 1
               /\ job_record_status' = "PENDING"
          ELSE /\ Return("no_record", 500, "error")
               /\ UNCHANGED <<job_records, job_record_status>>
    /\ UNCHANGED <<ini_event, executions, exceptIni>>

\* sfn_started, execution_arn_or_error = start_step_function(job_id, bucket_name, s3_folder)
\* when the start fails the handler answers 500; it does not write to the job table
InitialStartWorkflow ==
    /\ ini_pc = "workflow"
    /\ \E sfn_started \in BOOLEAN :
          IF sfn_started
          THEN Return("workflow_started", 202, "PENDING") /\ executions' = executions + 1
          ELSE Return("no_workflow", 500, "error") /\ UNCHANGED executions
    /\ UNCHANGED <<ini_event, job_records, job_record_status, exceptIni>>

NextInitial ==
    \/ InitialCall \/ InitialValidate \/ InitialVerifyBucket \/ InitialVerifyFolder
    \/ InitialCreateRecord \/ InitialStartWorkflow

SpecInitial == InitInitial /\ [][NextInitial]_vars

\* the parameters of the event pass every check of the input validation
WellFormed(e) == e.bucket_name = "valid" /\ e.s3_folder = "relative"

\* the step with the outcome a was made, and before the step with the outcome b
Before(a, b) ==
    \E i, j \in 1..Len(ini_log) : i < j /\ ini_log[i] = a /\ ini_log[j] = b

Logged(a) == \E i \in 1..Len(ini_log) : ini_log[i] = a

C38_NoRecordLeftPending ==
    (ini_pc = "returned" /\ job_records = 1)
    => (executions = 1 \/ job_record_status = "FAILED")

-----------------------------------------------------------------------------
(* SpecMerge: the loop of the lambda_handler of the result-aggregator lambda over the *)
(* chunk results, one item of a stored result at a time.  A stored result is the      *)
(* ordered mapping the chunk processor has put under the result key; a value is       *)
(* modelled by its Python type and by the chunks whose content it holds.              *)

MaxMergeChunks == 3

Item(key, type) == [key |-> key, type |-> type]

\* the mapping process_chunk_with_streaming returns and the lambda_handler of the chunk
\* processor stores as the chunk's result
streaming_result ==
    <<Item("status", "str"), Item("chunk_index", "int"),
      Item("total_files_created", "int"), Item("files_by_section", "dict"),
      Item("all_files", "list")>>

\* a mapping of service types to texts, as parse_llm_response_by_service returns it
service_texts(n) ==
    IF n = 1 THEN <<Item("LAMBDA_FUNCTIONS", "str")>>
    ELSE <<Item("LAMBDA_FUNCTIONS", "str"), Item("S3", "str")>>

StoredResults == {streaming_result, service_texts(1), service_texts(2)}

MergeResultsOf(n) ==
    [1..n -> [status : {"success", "error"}, result_key : BOOLEAN,
              stored : StoredResults]]

\* aggregated[service_type] += f"...{content}" raises for these types of the value
\* held; a str is concatenated and a list is extended
raises_on_append(type) == type \in {"int", "dict"}

InitMerge ==
    /\ merge_pc = "loop"
    /\ \E n \in 1..MaxMergeChunks : merge_results \in MergeResultsOf(n)
    /\ merge_i = 0
    /\ merge_items = <<>>
    /\ merge_k = 0
    /\ merged = <<>>
    /\ before_chunk = <<>>
    /\ merge_raised = {}
    /\ merge_result = [status |-> "none"]
    /\ IdleExceptMrg

\* an iteration that continues at once: a failed chunk, or a result without result key
MergeSkip ==
    /\ merge_pc = "loop"
    /\ merge_i < Len(merge_results)
    /\ LET r == merge_results[merge_i + 1] IN r.status = "error" \/ ~r.result_key
    /\ merge_i' = merge_i + 1
    /\ UNCHANGED <<merge_pc, merge_results, merge_items, merge_k, merged, before_chunk,
                   merge_raised, merge_result>>
    /\ UNCHANGED exceptMrg

\* get_object and json.loads: the stored result is in hand, or the read raises
MergeRead ==
    /\ merge_pc = "loop"
    /\ merge_i < Len(merge_results)
    /\ LET r == merge_results[merge_i + 1] IN
          /\ r.status # "error" /\ r.result_key
          /\ \E read \in {"ok", "raises"} :
                IF read = "ok"
                THEN /\ merge_items' = r.stored
                     /\ merge_pc' = "items"
                ELSE /\ merge_items' = <<>>
                     /\ merge_pc' = "except"
    /\ merge_k' = 0
    /\ before_chunk' = merged
    /\ UNCHANGED <<merge_results, merge_i, merged, merge_raised, merge_result>>
    /\ UNCHANGED exceptMrg

\* one round of the loop over service_contents.items(); after the last item the
\* iteration over the chunk results goes on
MergeItem ==
    /\ merge_pc = "items"
    /\ IF merge_k = Len(merge_items)
       THEN /\ merge_pc' = "loop"
            /\ merge_i' = merge_i + 1
            /\ UNCHANGED <<merge_k, merged>>
       ELSE LET item == merge_items[merge_k + 1] IN
            /\ UNCHANGED merge_i
            /\ IF item.key \notin DOMAIN merged
               THEN /\ merged' = (item.key :> [type |-> item.type,
                                               chunks |-> <<merge_i + 1>>]) @@ merged
                    /\ merge_k' = merge_k + 1
                    /\ UNCHANGED merge_pc
               ELSE IF raises_on_append(merged[item.key].type)
               THEN /\ merge_pc' = "except"
                    /\ UNCHANGED <<merge_k, merged>>
               ELSE /\ merged' = [merged EXCEPT
                                     ![item.key].chunks = Append(@, merge_i + 1)]
                    /\ merge_k' = merge_k + 1
                    /\ UNCHANGED merge_pc
    /\ UNCHANGED <<merge_results, merge_items, before_chunk, merge_raised, merge_result>>
    /\ UNCHANGED exceptMrg

\* except Exception: the failure is printed and the loop continues
MergeExcept ==
    /\ merge_pc = "except"
    /\ merge_raised' = merge_raised \cup {merge_i + 1}
    /\ merge_i' = merge_i + 1
    /\ merge_pc' = "loop"
    /\ UNCHANGED <<merge_results, merge_items, merge_k, merged, before_chunk,
                   merge_result>>
    /\ UNCHANGED exceptMrg

\* after the loop a file is written for each service type: content.strip() raises for
\* a value that is no str, and the handler returns its error
MergeReturn ==
    /\ merge_pc = "loop"
    /\ merge_i = Len(merge_results)
    /\ merge_pc' = "returned"
    /\ merge_result' = IF \E key \in DOMAIN merged : merged[key].type # "str"
                       THEN [status |-> "error"] ELSE [status |-> "success"]
    /\ UNCHANGED <<merge_results, merge_i, merge_items, merge_k, merged, before_chunk,
                   merge_raised>>
    /\ UNCHANGED exceptMrg

NextMerge == MergeSkip \/ MergeRead \/ MergeItem \/ MergeExcept \/ MergeReturn

SpecMerge == InitMerge /\ [][NextMerge]_vars

\* C36: when the merge of a chunk's result has raised, the aggregated mapping is what
\* it was before that chunk.
C36_NoPartialMerge == merge_pc = "except" => merged = before_chunk

-----------------------------------------------------------------------------
(* SpecSink: an extractor fed a text in fragments, then finalized, while the sink is  *)
(* at times unavailable: put_object raises as long as the sink is down.               *)

\* a section header and two files, the second of two lines, with or without a line
\* after them
SinkTexts ==
    {join_lines(<<sec, FileHdr, c1, FileHdr, c2, c2>> \o tail) :
        <<sec, c1, c2, tail>> \in {SecArtifact, SecDoc} \X ContentKinds \X ContentKinds
                                  \X {<<>>, <<Blank>>, <<SecArtifact>>}}

InitSink ==
    /\ impl \in Impls
    /\ text \in SinkTexts
    /\ pos = 0
    /\ sliced = FALSE
    /\ \E c \in {"up", "down"} :
          extractor = [FreshExtractor(impl) EXCEPT !.s3_client = c]
    /\ pc = "streaming"
    /\ result = NoResult
    /\ sentinel_yielded = FALSE
    /\ AggIdle
    /\ SplitIdle
    /\ LaterIdle

\* the sink goes down, or comes up again
SinkChange ==
    /\ pc = "streaming"
    /\ extractor' = [extractor EXCEPT !.s3_client = IF @ = "up" THEN "down" ELSE "up"]
    /\ UNCHANGED <<impl, text, pos, sliced, pc, result, sentinel_yielded>>
    /\ UNCHANGED aggVars
    /\ UNCHANGED <<splitVars, laterVars>>

NextSink == Feed \/ Finalize \/ SinkChange

SpecSink == InitSink /\ [][NextSink]_vars

\* the extractor with the sink in state c
WithSink(c) == [extractor EXCEPT !.s3_client = c]

LineWithSink(c, line) ==
    IF impl = "analysis" THEN process_line(WithSink(c), line)
    ELSE cse_process_line(WithSink(c), line)

EndWithSink(c) ==
    IF impl = "analysis" THEN finalize_processing(WithSink(c)) ELSE cse_finish(WithSink(c))

\* with the sink down, q has put and recorded nothing, and is in the parse state of r
FailedPutOnlyLosesFile(q, r) ==
    /\ q.s3 = extractor.s3
    /\ q.files_created = extractor.files_created
    /\ SameOpt(q.current_section, r.current_section)
    /\ SameOpt(q.current_file, r.current_file)
    /\ q.current_content = r.current_content
    /\ q.buffer = r.buffer

\* C37: the artifacts recorded are, one for one, the objects the sink has taken; and
\* a line, or the end of the stream, handled while the sink is down puts and records
\* nothing and leaves the parser in the state it is left in when the sink is up.
C37_FailedPutIsSkipped ==
    /\ Len(extractor.files_created) = Len(extractor.s3)
    /\ \A i \in 1..Len(extractor.s3) :
          /\ extractor.files_created[i].s3_path = extractor.s3[i].Key
          /\ extractor.files_created[i].size = StrLen(extractor.s3[i].Body)
    /\ \A line \in LineKinds \cup ContentKinds :
          FailedPutOnlyLosesFile(LineWithSink("down", line), LineWithSink("up", line))
    /\ FailedPutOnlyLosesFile(EndWithSink("down"), EndWithSink("up"))

\* the put of the first file failed and the put of the second file, of two long lines,
\* succeeded
C37_Witness ==
    /\ Done
    /\ Len(Lines) >= 6
    /\ Lines[3] = Long /\ Lines[5] = Long
    /\ Len(extractor.s3) = 1
    /\ Len(BodyLines(1)) = 2
    /\ Len(extractor.files_created) = 1

-----------------------------------------------------------------------------
(* SpecCombine: the lambda_handler of the file-aggregation lambda building the        *)
(* combined prompt text.  Texts are modelled by their lengths; the job table takes    *)
(* every status report.                                                               *)

MaxCombinedChars == 40
MaxCombineFiles == 2

\* len("\n\n"), after the prompt template
TemplateGap == 2

\* len("\n\n--- FILE: ") + len(" ---\n\n"), around the file name
FileMarkerLen == 18

\* the lengths of a prompt template shorter and longer than the limit, of the stored
\* file contents and of the file names
PromptLens == {5, MaxCombinedChars + 10}
FileLens == {0, 10, MaxCombinedChars}
FileNameLens == {1, 8}

CombineResultsOf(n) ==
    [1..n -> [status : {"success", "error"}, has_key : BOOLEAN,
              content_len : FileLens, name_len : FileNameLens]]

\* [result for result in file_results if result.get('status') != 'error']
combine_successful_files(rs) == SelectSeq(rs, LAMBDA r : r.status # "error")

\* len(s[:k]) for a string of n characters: a negative k counts from the end
slice_len(n, k) ==
    IF k >= 0 THEN (IF n <= k THEN n ELSE k)
    ELSE (IF n + k >= 0 THEN n + k ELSE 0)

InitCombine ==
    /\ cmb_pc = "called"
    /\ prompt_len \in PromptLens
    /\ max_combined_chars = MaxCombinedChars
    /\ \E n \in 0..MaxCombineFiles : cmb_results \in CombineResultsOf(n)
    /\ cmb_i = 0
    /\ combined_len = 0
    /\ cmb_file_count = 0
    /\ cmb_result = [status |-> "none"]
    /\ IdleExceptCmb

\* up to the loop: without a successful file the handler returns its error
CombineStart ==
    /\ cmb_pc = "called"
    /\ IF combine_successful_files(cmb_results) = <<>>
       THEN /\ cmb_pc' = "returned"
            /\ cmb_result' = [status |-> "error"]
            /\ UNCHANGED combined_len
       ELSE /\ cmb_pc' = "loop"
            /\ combined_len' = prompt_len + TemplateGap
            /\ UNCHANGED cmb_result
    /\ UNCHANGED <<prompt_len, max_combined_chars, cmb_results, cmb_i, cmb_file_count>>
    /\ UNCHANGED exceptCmb

\* one iteration over successful_files: a result without key or whose object cannot be
\* read is passed over; a file that does not fit ends the loop when there is content
\* already, and is cut when it is the first
CombineFile ==
    /\ cmb_pc = "loop"
    /\ cmb_i < Len(combine_successful_files(cmb_results))
    /\ LET r == combine_successful_files(cmb_results)[cmb_i + 1] IN
       \E read \in {"ok", "raises"} :
          IF ~r.has_key \/ read = "raises"
          THEN /\ cmb_i' = cmb_i + 1
               /\ UNCHANGED <<cmb_pc, combined_len, cmb_file_count>>
          ELSE IF /\ combined_len + r.content_len > max_combined_chars
                  /\ combined_len # prompt_len + TemplateGap
          THEN /\ cmb_pc' = "after_loop"
               /\ UNCHANGED <<cmb_i, combined_len, cmb_file_count>>
          ELSE LET file_content_len ==
                       IF combined_len + r.content_len > max_combined_chars
                       THEN slice_len(r.content_len, max_combined_chars - combined_len)
                       ELSE r.content_len
               IN /\ combined_len' = combined_len + FileMarkerLen + r.name_len
                                     + file_content_len
                  /\ cmb_file_count' = cmb_file_count + 1
                  /\ cmb_i' = cmb_i + 1
                  /\ UNCHANGED cmb_pc
    /\ UNCHANGED <<prompt_len, max_combined_chars, cmb_results, cmb_result>>
    /\ UNCHANGED exceptCmb

\* after the loop: an error when nothing was added to the template, else combined_text
\* is put under full_prompt.txt
CombineReturn ==
    /\ \/ cmb_pc = "after_loop"
       \/ cmb_pc = "loop" /\ cmb_i = Len(combine_successful_files(cmb_results))
    /\ cmb_pc' = "returned"
    /\ cmb_result' = IF combined_len = prompt_len + TemplateGap
                     THEN [status |-> "error"]
                     ELSE [status |-> "success", full_prompt_len |-> combined_len]
    /\ UNCHANGED <<prompt_len, max_combined_chars, cmb_results, cmb_i, combined_len,
                   cmb_file_count>>
    /\ UNCHANGED exceptCmb

NextCombine == CombineStart \/ CombineFile \/ CombineReturn

SpecCombine == InitCombine /\ [][NextCombine]_vars

\* C39: the combined text put under full_prompt.txt has at most max_combined_chars
\* characters.
C39_WithinMaxCombinedChars ==
    cmb_result.status = "success" => cmb_result.full_prompt_len <= max_combined_chars

====
